---- MODULE Spec2Model ----
(***************************************************************************)
(* daChain: a UTXO ledger of fractional asset ownership shared by a mesh   *)
(* of full nodes (src/blockchain.py, src/node.py, src/models.py,           *)
(* src/utils.py, src/utxo.py, src/wallet.py, src/crypto.py, src/cli.py).   *)
(*                                                                         *)
(* Byte strings are sequences of natural-number tokens.  SHA-256 is a      *)
(* narrow polynomial digest over those tokens, so that a digest is a       *)
(* number that can be compared with the proof-of-work target, embedded in  *)
(* another byte string, and differs from its own pre-image.                *)
(***************************************************************************)
EXTENDS Integers, Sequences, FiniteSets, TLC

\* ------------------------------------------------------------------ bounds
\* number of state-changing calls of a run: transactions admitted by a node
\* plus blocks stored in the chain map
MaxCalls == 4
\* number of outputs create_random_valid_tx draws (the code draws 1..3)
MaxK == 2

\* calls one transaction flood may make before the stack is exhausted
MaxFlood == 8
\* receive_transaction calls counted after stop()
MaxSent == 2
\* longest pending list handed to mine_block
MaxPending == 10
\* largest first share of the split that precedes a generator call
MaxPortion == 3
\* longest mempool a drain starts from
MaxPool == 2

\* ------------------------------------------------------- crypto (crypto.py)
HashMod == 1000003
HashBase == 1297
HashSeed == 7

RECURSIVE sha256_fold(_, _, _)
sha256_fold(data, i, h) ==
    IF i > Len(data) THEN h
    ELSE sha256_fold(data, i + 1, (h * HashBase + data[i] + 1) % HashMod)

\* last round: swaps the low and the high digits, so that inputs which
\* differ in one token get digests far apart
sha256_final(h) ==
    (h % 1000) * 1001 + (h \div 1000)

\* hashlib.sha256(data).hexdigest(): the digest, read as an integer
sha256_hex(data) ==
    sha256_final(sha256_fold(data, 1, HashSeed))

\* hashlib.sha256(data).digest(): same digest, as bytes (one token)
sha256_bytes(data) ==
    sha256_final(sha256_fold(data, 1, HashSeed))

\* "0" * 64
ZERO_HASH == 0

\* height_tip_hash = "" (no tip yet)
NO_TIP == -1

\* Python None
None == [none |-> TRUE]

\* -------------------------------------------------------- wallet (wallet.py)
\* cli.initiate_dachain N creates 2N wallets, the first N own the genesis
\* assets; wallet w has the raw public key <<w>>
InitialWallets == <<1>>
Wallets == {1, 2}

pubkey_hex(w) == w

pubkey_hash(w) ==
    sha256_hex(<<w>>)

\* Wallet.sign: a signature binds the signing key to the message hash
sign(w, msg_hash) ==
    [signer |-> w, msg |-> msg_hash]

\* the "" placeholder signature of create_random_valid_tx
EMPTY_SIG == [signer |-> 0, msg |-> 0]

\* a string that bytes.fromhex does not take
NOT_HEX == -1

\* a signature that is not hex
BAD_SIG == [signer |-> NOT_HEX, msg |-> NOT_HEX]

\* what bytes.fromhex raises
VALUE_ERROR == "ValueError: non-hexadecimal number found in fromhex()"

\* Wallet.verify(pubkey_hex, msg_hash_hex, signature_hex): every exception
\* of the key and signature decoding is caught and gives False
\* verify that accepts a signature over the right message by any key
verify_message_only(pubkey, msg_hash, signature) ==
    signature.msg = msg_hash

verify(pubkey, msg_hash, signature) ==
    /\ pubkey # NOT_HEX
    /\ signature # BAD_SIG
    /\ signature.signer = pubkey
    /\ signature.msg = msg_hash

\* -------------------------------------------------------- models (models.py)
TxOutput(asset_id, pkh, portion) ==
    [asset_id |-> asset_id, pubkey_hash |-> pkh, portion |-> portion]

TxInput(txid_ref, index, pubkey, signature) ==
    [txid_ref |-> txid_ref, index |-> index, pubkey |-> pubkey,
     signature |-> signature]

\* TxOutput.to_dict under sort_keys: asset_id, portion, pubkey_hash
TxOutput_to_dict(out) ==
    <<out.asset_id, out.portion, out.pubkey_hash>>

\* TxInput.to_dict under sort_keys: index, pubkey, [signature,] txid_ref
TxInput_to_dict(inp, include_signature) ==
    IF include_signature
    THEN <<inp.index, inp.pubkey, inp.signature.signer, inp.signature.msg,
           inp.txid_ref>>
    ELSE <<inp.index, inp.pubkey, inp.txid_ref>>

RECURSIVE concat_inputs(_, _, _)
concat_inputs(inputs, i, include_signature) ==
    IF i > Len(inputs) THEN <<>>
    ELSE TxInput_to_dict(inputs[i], include_signature)
         \o concat_inputs(inputs, i + 1, include_signature)

RECURSIVE concat_outputs(_, _)
concat_outputs(outputs, i) ==
    IF i > Len(outputs) THEN <<>>
    ELSE TxOutput_to_dict(outputs[i]) \o concat_outputs(outputs, i + 1)

\* Transaction._serialize: {"inputs":[...],"outputs":[...]}
serialize(inputs, outputs, include_signatures) ==
    <<Len(inputs)>> \o concat_inputs(inputs, 1, include_signatures)
    \o <<Len(outputs)>> \o concat_outputs(outputs, 1)

\* a txid taken over the signing form
compute_txid_unsigned(inputs, outputs) ==
    sha256_hex(serialize(inputs, outputs, FALSE))

compute_txid(inputs, outputs) ==
    sha256_hex(serialize(inputs, outputs, TRUE))

message_hash(tx) ==
    sha256_hex(serialize(tx.inputs, tx.outputs, FALSE))

\* Transaction.__post_init__
Transaction(inputs, outputs) ==
    [inputs |-> inputs, outputs |-> outputs,
     txid |-> compute_txid(inputs, outputs)]

BlockHeader(height, prev_hash, root, nonce) ==
    [height |-> height, prev_hash |-> prev_hash, merkle_root |-> root,
     nonce |-> nonce]

\* BlockHeader.hash under sort_keys: height, merkle_root, nonce, prev_hash
header_hash(header) ==
    sha256_hex(<<header.height, header.merkle_root, header.nonce,
                 header.prev_hash>>)

Block(header, txs) ==
    [header |-> header, txs |-> txs]

\* ----------------------------------------------------------- utils (utils.py)
RECURSIVE merkle_pairs(_, _)
merkle_pairs(level, i) ==
    IF i > Len(level) THEN <<>>
    ELSE LET left == level[i]
             right == IF i + 1 <= Len(level) THEN level[i + 1] ELSE left
         IN <<sha256_bytes(<<left, right>>)>> \o merkle_pairs(level, i + 2)

RECURSIVE merkle_level(_)
merkle_level(level) ==
    IF Len(level) > 1 THEN merkle_level(merkle_pairs(level, 1))
    ELSE level[1]

merkle_root(txids) ==
    IF txids = <<>> THEN sha256_hex(<<>>)
    ELSE merkle_level(txids)

txids_of(txs) ==
    [i \in 1 .. Len(txs) |-> txs[i].txid]

\* a genesis block that gives every asset to the first wallet
create_genesis_one_owner(num_assets, initial_wallets) ==
    LET txs == [i \in 1 .. num_assets |->
                   Transaction(<<>>, <<TxOutput(i - 1,
                                                pubkey_hash(initial_wallets[1]),
                                                100)>>)]
    IN Block(BlockHeader(0, ZERO_HASH, merkle_root(txids_of(txs)), 0), txs)

\* create_genesis(num_assets, initial_wallets): asset i is "asset-i"
create_genesis(num_assets, initial_wallets) ==
    LET txs == [i \in 1 .. num_assets |->
                   Transaction(<<>>, <<TxOutput(i - 1,
                                                pubkey_hash(initial_wallets[i]),
                                                100)>>)]
        root == merkle_root(txids_of(txs))
    IN Block(BlockHeader(0, ZERO_HASH, root, 0), txs)

\* ------------------------------------------------------------ utxo (utxo.py)
EMPTY_MAP == [k \in {} |-> None]

\* UTXOSet.add_output: duplicates overwrite
add_output(utxos, txid, index, out) ==
    [k \in DOMAIN utxos \cup {<<txid, index>>} |->
        IF k = <<txid, index>> THEN out ELSE utxos[k]]

\* UTXOSet.remove_output: pop((txid, index), None)
remove_output(utxos, txid, index) ==
    [k \in DOMAIN utxos \ {<<txid, index>>} |-> utxos[k]]

\* UTXOSet.get_output
get_output(utxos, txid, index) ==
    IF <<txid, index>> \in DOMAIN utxos THEN utxos[<<txid, index>>] ELSE None

\* ------------------------------------------------- ledger (blockchain.py)
TARGET == 250000
MAX_TX_PER_BLOCK == 8

\* asset_id = None before the first input is read
NO_ASSET == -1

\* the input loop of validate_transaction, one input per step; bytes.fromhex
\* of a public key that is not hex raises ValueError out of the loop
RECURSIVE validate_inputs(_, _, _, _, _)
validate_inputs(tx, utxos, i, asset_id, total_in) ==
    IF i > Len(tx.inputs)
    THEN [ok |-> TRUE, reason |-> "ok", asset_id |-> asset_id,
          total_in |-> total_in]
    ELSE LET inp == tx.inputs[i]
             utxo0 == get_output(utxos, inp.txid_ref, inp.index)
         IN IF utxo0 = None
            THEN [ok |-> FALSE, reason |-> "missing UTXO",
                  asset_id |-> asset_id, total_in |-> total_in]
            ELSE IF asset_id # NO_ASSET /\ utxo0.asset_id # asset_id
            THEN [ok |-> FALSE, reason |-> "multiple asset_ids in inputs",
                  asset_id |-> asset_id, total_in |-> total_in]
            ELSE IF inp.pubkey = NOT_HEX
            THEN [ok |-> FALSE, reason |-> VALUE_ERROR,
                  asset_id |-> asset_id, total_in |-> total_in + utxo0.portion]
            ELSE IF sha256_hex(<<inp.pubkey>>) # utxo0.pubkey_hash
            THEN [ok |-> FALSE, reason |-> "pubkey hash mismatch",
                  asset_id |-> asset_id, total_in |-> total_in + utxo0.portion]
            ELSE validate_inputs(tx, utxos, i + 1, utxo0.asset_id,
                                 total_in + utxo0.portion)

RECURSIVE sum_portions(_, _)
sum_portions(outputs, i) ==
    IF i > Len(outputs) THEN 0
    ELSE outputs[i].portion + sum_portions(outputs, i + 1)

\* validate_transaction without its last rule, the signature check
validate_transaction_unsigned(tx, utxos) ==
    IF tx.inputs = <<>>
    THEN [ok |-> TRUE, reason |-> "coinbase/genesis tx"]
    ELSE LET r == validate_inputs(tx, utxos, 1, NO_ASSET, 0)
             total_out == sum_portions(tx.outputs, 1)
         IN IF ~r.ok THEN [ok |-> FALSE, reason |-> r.reason]
            ELSE IF \E j \in 1 .. Len(tx.outputs) :
                        tx.outputs[j].asset_id # r.asset_id
            THEN [ok |-> FALSE, reason |-> "output asset_id mismatch"]
            ELSE IF r.total_in # total_out
            THEN [ok |-> FALSE, reason |-> "portion mismatch"]
            ELSE [ok |-> TRUE, reason |-> "ok"]

\* Blockchain.validate_transaction -> (ok, reason)
validate_transaction(tx, utxos) ==
    IF tx.inputs = <<>>
    THEN [ok |-> TRUE, reason |-> "coinbase/genesis tx"]
    ELSE LET r == validate_inputs(tx, utxos, 1, NO_ASSET, 0)
             total_out == sum_portions(tx.outputs, 1)
             msg_hash == message_hash(tx)
         IN IF ~r.ok THEN [ok |-> FALSE, reason |-> r.reason]
            ELSE IF \E j \in 1 .. Len(tx.outputs) :
                        tx.outputs[j].asset_id # r.asset_id
            THEN [ok |-> FALSE, reason |-> "output asset_id mismatch"]
            ELSE IF r.total_in # total_out
            THEN [ok |-> FALSE, reason |-> "portion mismatch"]
            ELSE IF \E j \in 1 .. Len(tx.inputs) :
                        ~verify(tx.inputs[j].pubkey, msg_hash,
                                tx.inputs[j].signature)
            THEN [ok |-> FALSE, reason |-> "signature verification failed"]
            ELSE [ok |-> TRUE, reason |-> "ok"]

RECURSIVE remove_inputs(_, _, _)
remove_inputs(utxos, inputs, i) ==
    IF i > Len(inputs) THEN utxos
    ELSE remove_inputs(remove_output(utxos, inputs[i].txid_ref,
                                     inputs[i].index), inputs, i + 1)

RECURSIVE add_outputs(_, _, _, _)
add_outputs(utxos, txid, outputs, i) ==
    IF i > Len(outputs) THEN utxos
    ELSE add_outputs(add_output(utxos, txid, i - 1, outputs[i]), txid,
                     outputs, i + 1)

\* Blockchain.apply_transaction: inputs removed, then outputs added
apply_transaction(utxos, tx) ==
    add_outputs(remove_inputs(utxos, tx.inputs, 1), tx.txid, tx.outputs, 1)

RECURSIVE apply_all(_, _, _)
apply_all(utxos, txs, i) ==
    IF i > Len(txs) THEN utxos
    ELSE apply_all(apply_transaction(utxos, txs[i]), txs, i + 1)

\* the ledger: chain map, tip pointer, UTXO set
Ledger(blocks, tip_hash, utxos) ==
    [blocks_by_hash |-> blocks, height_tip_hash |-> tip_hash, utxo |-> utxos]

put_block(blocks, h, block) ==
    [k \in DOMAIN blocks \cup {h} |-> IF k = h THEN block ELSE blocks[k]]

\* Blockchain.tip: blocks_by_hash.get(height_tip_hash)
tip_of(L) ==
    IF L.height_tip_hash \in DOMAIN L.blocks_by_hash
    THEN L.blocks_by_hash[L.height_tip_hash] ELSE None

RECURSIVE genesis_outputs(_, _, _)
genesis_outputs(utxos, txs, i) ==
    IF i > Len(txs) THEN utxos
    ELSE genesis_outputs(add_outputs(utxos, txs[i].txid, txs[i].outputs, 1),
                         txs, i + 1)

\* Blockchain.add_genesis_block: no check of any kind
add_genesis_block(L, block) ==
    LET h == header_hash(block.header)
    IN Ledger(put_block(L.blocks_by_hash, h, block), h,
              genesis_outputs(L.utxo, block.txs, 1))

\* a selection loop that never breaks off
RECURSIVE select_valid_uncapped(_, _, _, _)
select_valid_uncapped(pending, utxos, i, selected) ==
    IF i > Len(pending) THEN selected
    ELSE select_valid_uncapped(pending, utxos, i + 1,
             IF validate_transaction(pending[i], utxos).ok
             THEN Append(selected, pending[i]) ELSE selected)

\* a selection loop that stops at the first valid transaction
RECURSIVE select_valid_single(_, _, _, _)
select_valid_single(pending, utxos, i, selected) ==
    IF i > Len(pending) \/ Len(selected) >= 1 THEN selected
    ELSE select_valid_single(pending, utxos, i + 1,
             IF validate_transaction(pending[i], utxos).ok
             THEN Append(selected, pending[i]) ELSE selected)

\* the selection loop of mine_block
RECURSIVE select_valid(_, _, _, _)
select_valid(pending, utxos, i, selected) ==
    IF i > Len(pending) THEN selected
    ELSE LET sel == IF validate_transaction(pending[i], utxos).ok
                    THEN Append(selected, pending[i]) ELSE selected
         IN IF Len(sel) >= MAX_TX_PER_BLOCK THEN sel
            ELSE select_valid(pending, utxos, i + 1, sel)

\* the nonce loop of mine_block: first nonce whose header hash is below target
RECURSIVE find_nonce(_, _, _, _)
find_nonce(height, prev_hash, root, nonce) ==
    IF header_hash(BlockHeader(height, prev_hash, root, nonce)) < TARGET
    THEN nonce
    ELSE find_nonce(height, prev_hash, root, nonce + 1)

\* next_position that reuses the tip's height
next_position_flat(L) ==
    LET tip == tip_of(L)
    IN IF tip # None
       THEN [height |-> tip.header.height,
             prev_hash |-> header_hash(tip.header)]
       ELSE [height |-> 0, prev_hash |-> ZERO_HASH]

\* height and prev_hash of the next block
next_position(L) ==
    LET tip == tip_of(L)
    IN IF tip # None
       THEN [height |-> tip.header.height + 1,
             prev_hash |-> header_hash(tip.header)]
       ELSE [height |-> 0, prev_hash |-> ZERO_HASH]

\* the header mine_block ends its nonce loop with
mined_header(pos, root) ==
    BlockHeader(pos.height, pos.prev_hash, root,
                find_nonce(pos.height, pos.prev_hash, root, 0))

\* the success branch of mine_block: block stored under its hash h, tip
\* moved to h, then every selected transaction applied
commit_block(L, block, h) ==
    [ok |-> TRUE, reason |-> "mined", block |-> block,
     ledger |-> Ledger(put_block(L.blocks_by_hash, h, block), h,
                       apply_all(L.utxo, block.txs, 1))]

\* mine_block after the selection loop
mine_selected(L, selected) ==
    IF selected = <<>>
    THEN [ok |-> FALSE, reason |-> "no valid transactions to mine",
          block |-> None, ledger |-> L]
    ELSE LET header == mined_header(next_position(L),
                                    merkle_root(txids_of(selected)))
         IN commit_block(L, Block(header, selected), header_hash(header))

\* Blockchain.mine_block(pending_txs): raises (ok = FALSE) or returns block
mine_block(L, pending) ==
    mine_selected(L, select_valid(pending, L.utxo, 1, <<>>))

\* Blockchain.find_output_in_chain: the output a stored transaction created,
\* spent or not
find_output_in_chain(blocks, txid, index) ==
    LET hits == {b \in {<<h, i>> : h \in DOMAIN blocks, i \in 1 .. MAX_TX_PER_BLOCK} :
                    /\ b[2] <= Len(blocks[b[1]].txs)
                    /\ blocks[b[1]].txs[b[2]].txid = txid
                    /\ 0 <= index
                    /\ index < Len(blocks[b[1]].txs[b[2]].outputs)}
    IN IF hits = {} THEN None
       ELSE LET b == CHOOSE x \in hits : TRUE
            IN blocks[b[1]].txs[b[2]].outputs[index + 1]

\* the loop of build_chain_from_tip without the visited set, cut off after
\* twice as many steps as there are blocks
RECURSIVE walk_chain_unvisited(_, _, _, _)
walk_chain_unvisited(blocks, cur_hash, visited, chain) ==
    IF cur_hash = NO_TIP \/ Len(chain) >= 2 * Cardinality(DOMAIN blocks)
    THEN chain
    ELSE IF cur_hash \notin DOMAIN blocks THEN chain
    ELSE LET blk == blocks[cur_hash]
             chain1 == Append(chain, [hash |-> cur_hash, block |-> blk])
         IN IF blk.header.prev_hash = ZERO_HASH THEN chain1
            ELSE walk_chain_unvisited(blocks, blk.header.prev_hash,
                                      visited, chain1)

\* the loop of build_chain_from_tip
RECURSIVE walk_chain(_, _, _, _)
walk_chain(blocks, cur_hash, visited, chain) ==
    IF cur_hash = NO_TIP \/ cur_hash \in visited THEN chain
    ELSE IF cur_hash \notin DOMAIN blocks THEN chain
    ELSE LET blk == blocks[cur_hash]
             chain1 == Append(chain, [hash |-> cur_hash, block |-> blk])
         IN IF blk.header.prev_hash = ZERO_HASH THEN chain1
            ELSE walk_chain(blocks, blk.header.prev_hash,
                            visited \cup {cur_hash}, chain1)

\* Blockchain.build_chain_from_tip: tip first
build_chain_from_tip(L) ==
    walk_chain(L.blocks_by_hash, L.height_tip_hash, {}, <<>>)

\* ------------------------------------------------------ full node (node.py)
Nodes == {0, 1}

\* cli.initiate_fullnodes: node i is "F<i>"; every node lists every other
\* node once, in creation order
mesh_peers(n) ==
    LET others == {m \in Nodes : m # n}
        rank(m) == Cardinality({x \in others : x < m})
    IN [i \in 1 .. Cardinality(others) |->
           CHOOSE m \in others : rank(m) = i - 1]

\* mempool: dict txid -> tx in insertion order
in_mempool(pool, txid) ==
    \E i \in 1 .. Len(pool) : pool[i].txid = txid

RECURSIVE pool_pop(_, _)
pool_pop(pool, txid) ==
    IF pool = <<>> THEN <<>>
    ELSE IF Head(pool).txid = txid THEN pool_pop(Tail(pool), txid)
    ELSE <<Head(pool)>> \o pool_pop(Tail(pool), txid)

RECURSIVE pool_pop_all(_, _, _)
pool_pop_all(pool, txs, i) ==
    IF i > Len(txs) THEN pool
    ELSE pool_pop_all(pool_pop(pool, txs[i].txid), txs, i + 1)

\* one run of the transaction flood: the mempools, and one entry per
\* receive_transaction call made so far (the node called and what it did)
Flood(pools, calls) == [pools |-> pools, calls |-> calls]

\* the flood's state after one more call
flood_call(F, n, did, pools) ==
    Flood(pools, Append(F.calls, [node |-> n, did |-> did]))

RECURSIVE receive_transaction(_, _, _, _, _)
RECURSIVE forward_transaction(_, _, _, _, _, _)

\* receive_transaction that stores the transaction before validating it
receive_transaction_eager(n, tx, F, utxos, prs) ==
    IF Len(F.calls) >= MaxFlood THEN F
    ELSE IF in_mempool(F.pools[n], tx.txid)
    THEN flood_call(F, n, "duplicate", F.pools)
    ELSE IF ~validate_transaction(tx, utxos).ok
    THEN flood_call(F, n, "rejected", [F.pools EXCEPT ![n] = Append(@, tx)])
    ELSE forward_transaction(prs[n], 1, tx,
             flood_call(F, n, "admitted", [F.pools EXCEPT ![n] = Append(@, tx)]),
             utxos, prs)

\* receive_transaction without the test for a txid the mempool already holds
receive_transaction_again(n, tx, F, utxos, prs) ==
    IF Len(F.calls) >= MaxFlood THEN F
    ELSE IF ~validate_transaction(tx, utxos).ok
    THEN flood_call(F, n, "rejected", F.pools)
    ELSE forward_transaction(prs[n], 1, tx,
             flood_call(F, n, "admitted", [F.pools EXCEPT ![n] = Append(@, tx)]),
             utxos, prs)

\* FullNode.receive_transaction and its forwarding loop; the flood is a
\* chain of direct calls that ends before the first call returns. A call
\* made at depth MaxFlood is not made: the interpreter's stack is finite.
\* An exception of validate_transaction is not caught: the call raises.
receive_transaction(n, tx, F, utxos, prs) ==
    IF Len(F.calls) >= MaxFlood THEN F
    ELSE IF in_mempool(F.pools[n], tx.txid)
    THEN flood_call(F, n, "duplicate", F.pools)
    ELSE IF validate_transaction(tx, utxos).reason = VALUE_ERROR
    THEN flood_call(F, n, "raised", F.pools)
    ELSE IF ~validate_transaction(tx, utxos).ok
    THEN flood_call(F, n, "rejected", F.pools)
    ELSE forward_transaction(prs[n], 1, tx,
             flood_call(F, n, "admitted", [F.pools EXCEPT ![n] = Append(@, tx)]),
             utxos, prs)

\* forward_transaction that stops after the node's own mempool
forward_transaction_nowhere(ps, i, tx, F, utxos, prs) ==
    F

\* for p in self.peers: p.receive_transaction(tx)
forward_transaction(ps, i, tx, F, utxos, prs) ==
    IF i > Len(ps) THEN F
    ELSE IF F.calls # <<>> /\ F.calls[Len(F.calls)].did = "raised" THEN F
    ELSE forward_transaction(ps, i + 1, tx,
                             receive_transaction(ps[i], tx, F, utxos, prs),
                             utxos, prs)

\* what the first call of the flood reports
receive_transaction_reason(n, tx, pools, utxos) ==
    IF in_mempool(pools[n], tx.txid) THEN "duplicate"
    ELSE validate_transaction(tx, utxos).reason

\* the shared world a node call works on
World(L, pools, last, sent, reports) ==
    [ledger |-> L, mempool |-> pools, last_mined_block |-> last,
     broadcasts |-> sent, master_reports |-> reports]

\* receive_block that applies each transaction as soon as it has validated
\* it, and stops at the first one that fails
receive_block_partial(n, block, W) ==
    LET L == W.ledger
        header == block.header
        h == header_hash(header)
        bad == {i \in 1 .. Len(block.txs) :
                   ~validate_transaction(block.txs[i], L.utxo).ok}
    IN IF L.height_tip_hash # NO_TIP /\ header.prev_hash # L.height_tip_hash
       THEN [world |-> W, reason |-> "not extending tip"]
       ELSE IF h >= TARGET
       THEN [world |-> W, reason |-> "invalid PoW"]
       ELSE IF bad # {}
       THEN [world |->
               [W EXCEPT !.ledger.utxo =
                   apply_all(@, SubSeq(block.txs, 1,
                                (CHOOSE i \in bad : \A k \in bad : i <= k) - 1),
                             1)],
             reason |-> "invalid tx"]
       ELSE [world |->
               [W EXCEPT !.ledger = Ledger(put_block(L.blocks_by_hash, h, block),
                                           h, apply_all(L.utxo, block.txs, 1)),
                         !.mempool[n] = pool_pop_all(@, block.txs, 1)],
             reason |-> "accepted"]

\* FullNode.receive_block; an exception of validate_transaction is not
\* caught: the call raises at the first transaction that does not validate
\* if that one raises
receive_block(n, block, W) ==
    LET L == W.ledger
        header == block.header
        h == header_hash(header)
        bad == {i \in 1 .. Len(block.txs) :
                   ~validate_transaction(block.txs[i], L.utxo).ok}
    IN IF L.height_tip_hash # NO_TIP /\ header.prev_hash # L.height_tip_hash
       THEN [world |-> W, reason |-> "not extending tip"]
       ELSE IF h >= TARGET
       THEN [world |-> W, reason |-> "invalid PoW"]
       ELSE IF bad # {}
       THEN [world |-> W,
             reason |->
                IF validate_transaction(
                       block.txs[CHOOSE i \in bad : \A k \in bad : i <= k],
                       L.utxo).reason = VALUE_ERROR
                THEN VALUE_ERROR ELSE "invalid tx"]
       ELSE [world |->
               [W EXCEPT !.ledger = Ledger(put_block(L.blocks_by_hash, h, block),
                                           h, apply_all(L.utxo, block.txs, 1)),
                         !.mempool[n] = pool_pop_all(@, block.txs, 1)],
             reason |-> "accepted"]

\* the broadcast loop of FullNode.mine
RECURSIVE broadcast_block(_, _, _, _)
broadcast_block(ps, i, block, W) ==
    IF i > Len(ps) THEN W
    ELSE broadcast_block(ps, i + 1, block,
             [receive_block(ps[i], block, W).world
                 EXCEPT !.broadcasts = @ + 1])

\* ------------------------------------------- master process (processes.py)
\* what a master operation leaves behind and the last line it printed
Narrated(W, outcome, ret) ==
    [world |-> W, outcome |-> outcome, ret |-> ret]

\* the input loop of MasterProcess.verify_transaction: the pubkey hash is
\* printed, only a bad signature stops the loop
RECURSIVE verify_inputs(_, _, _, _, _)
verify_inputs(tx, blocks, i, asset_id, total_in) ==
    IF i > Len(tx.inputs)
    THEN [ok |-> TRUE, reason |-> "", asset_id |-> asset_id,
          total_in |-> total_in]
    ELSE LET inp == tx.inputs[i]
             utxo0 == find_output_in_chain(blocks, inp.txid_ref, inp.index)
         IN IF utxo0 = None
            THEN [ok |-> FALSE, reason |-> "output not found in chain",
                  asset_id |-> asset_id, total_in |-> total_in]
            ELSE IF asset_id # NO_ASSET /\ utxo0.asset_id # asset_id
            THEN [ok |-> FALSE, reason |-> "mixed assets",
                  asset_id |-> asset_id, total_in |-> total_in]
            ELSE IF ~verify(inp.pubkey, message_hash(tx), inp.signature)
            THEN [ok |-> FALSE, reason |-> "signature NO!",
                  asset_id |-> utxo0.asset_id,
                  total_in |-> total_in + utxo0.portion]
            ELSE verify_inputs(tx, blocks, i + 1, utxo0.asset_id,
                               total_in + utxo0.portion)

\* the checks of verify_transaction on the leftmost transaction
verify_leftmost(tx, r) ==
    IF ~r.ok THEN r.reason
    ELSE IF \E j \in 1 .. Len(tx.outputs) : tx.outputs[j].asset_id # r.asset_id
    THEN "output assetId NO!"
    ELSE IF r.total_in # sum_portions(tx.outputs, 1)
    THEN "sum NO!"
    ELSE "yes!"

\* the block verify_transaction looks at
verified_block(node_id, from_last_block, W) ==
    IF from_last_block THEN W.last_mined_block[node_id] ELSE tip_of(W.ledger)

\* verify_transaction that drops what the node has pending
verify_transaction_purging(node_id, from_last_block, W) ==
    IF node_id \notin DOMAIN W.mempool
    THEN Narrated(W, "no such node", None)
    ELSE IF verified_block(node_id, from_last_block, W) = None
    THEN Narrated(W, "no mined block / no txs", None)
    ELSE IF verified_block(node_id, from_last_block, W).txs = <<>>
    THEN Narrated(W, "no mined block / no txs", None)
    ELSE Narrated([W EXCEPT !.mempool[node_id] = <<>>],
                  "yes!",
                  verified_block(node_id, from_last_block, W).txs[1].txid)

\* MasterProcess.verify_transaction
verify_transaction(node_id, from_last_block, W) ==
    IF node_id \notin DOMAIN W.mempool
    THEN Narrated(W, "no such node", None)
    ELSE IF verified_block(node_id, from_last_block, W) = None
    THEN Narrated(W, "no mined block / no txs", None)
    ELSE IF verified_block(node_id, from_last_block, W).txs = <<>>
    THEN Narrated(W, "no mined block / no txs", None)
    ELSE LET tx == verified_block(node_id, from_last_block, W).txs[1]
         IN Narrated(W,
                verify_leftmost(tx, verify_inputs(tx, W.ledger.blocks_by_hash,
                                                  1, NO_ASSET, 0)),
                tx.txid)

\* no "leftmost txID" line was printed
NO_TXID == -1

\* the txid verify_transaction(node_id, from_last_block=True) prints as the
\* leftmost one of the node's last mined block
leftmost_reported(n, W) ==
    IF verify_transaction(n, TRUE, W).outcome
          \in {"no such node", "no mined block / no txs"}
    THEN NO_TXID
    ELSE verify_transaction(n, TRUE, W).ret

\* MasterProcess.on_block_mined: reports the block, then verifies the
\* leftmost transaction of the node's last mined block
on_block_mined(n, block, W) ==
    IF block.txs # <<>>
    THEN verify_transaction(n, TRUE,
             [W EXCEPT !.master_reports =
                 Append(@, [node |-> n, hash |-> header_hash(block.header),
                            leftmost |-> leftmost_reported(n, W)])]).world
    ELSE [W EXCEPT !.master_reports =
             Append(@, [node |-> n, hash |-> header_hash(block.header),
                        leftmost |-> NO_TXID])]

\* the heights build_chain_from_tip yields, tip first
chain_heights(chain) ==
    [i \in 1 .. Len(chain) |-> chain[i].block.header.height]

\* only_node = None: the snapshot of all nodes
ALL_NODES == -1

\* MasterProcess.snapshot_daChain: every node shows the one shared ledger
snapshot_daChain(only_node, W) ==
    IF only_node # ALL_NODES /\ only_node \notin DOMAIN W.mempool
    THEN Narrated(W, "no such node", None)
    ELSE Narrated(W,
             IF build_chain_from_tip(W.ledger) = <<>> THEN "<empty chain>"
             ELSE "chain",
             chain_heights(build_chain_from_tip(W.ledger)))

\* blocks.sort(key = height, reverse = True): the hashes by falling height;
\* blocks of one height keep the order of the dict (here: of their hashes)
RECURSIVE sorted_blocks(_, _)
sorted_blocks(blocks, left) ==
    IF left = {} THEN <<>>
    ELSE LET h == CHOOSE x \in left : \A y \in left :
                      \/ blocks[x].header.height > blocks[y].header.height
                      \/ /\ blocks[x].header.height = blocks[y].header.height
                         /\ x <= y
         IN <<h>> \o sorted_blocks(blocks, left \ {h})

\* the scan of one block without the break: one entry per matching output
RECURSIVE trace_block_per_output(_, _, _, _, _)
trace_block_per_output(blocks, bh, asset_id, i, res) ==
    IF i > Len(blocks[bh].txs) THEN res
    ELSE trace_block_per_output(blocks, bh, asset_id, i + 1,
             res \o [j \in 1 .. Cardinality(
                        {o \in 1 .. Len(blocks[bh].txs[i].outputs) :
                            blocks[bh].txs[i].outputs[o].asset_id = asset_id}) |->
                        [height |-> blocks[bh].header.height,
                         hash |-> bh, tx |-> blocks[bh].txs[i]]])

\* the transactions of one block that have an output of the asset
RECURSIVE trace_block(_, _, _, _, _)
trace_block(blocks, bh, asset_id, i, res) ==
    IF i > Len(blocks[bh].txs) THEN res
    ELSE trace_block(blocks, bh, asset_id, i + 1,
             IF \E j \in 1 .. Len(blocks[bh].txs[i].outputs) :
                   blocks[bh].txs[i].outputs[j].asset_id = asset_id
             THEN Append(res, [height |-> blocks[bh].header.height,
                               hash |-> bh, tx |-> blocks[bh].txs[i]])
             ELSE res)

RECURSIVE trace_blocks(_, _, _, _, _)
trace_blocks(blocks, order, asset_id, k, res) ==
    IF k > Len(order) THEN res
    ELSE trace_blocks(blocks, order, asset_id, k + 1,
                      trace_block(blocks, order[k], asset_id, 1, res))

\* Blockchain.trace_asset: (height, block hash, tx), newest first
trace_asset(blocks, asset_id) ==
    trace_blocks(blocks, sorted_blocks(blocks, DOMAIN blocks), asset_id, 1, <<>>)

\* history[:limit]: limit is None (the whole history) or [k |-> integer];
\* a slice end below zero counts from the end of the list
first_entries(history, limit) ==
    IF limit = None THEN history
    ELSE IF limit.k >= Len(history) THEN history
    ELSE IF limit.k >= 0 THEN SubSeq(history, 1, limit.k)
    ELSE IF Len(history) + limit.k >= 0
         THEN SubSeq(history, 1, Len(history) + limit.k)
    ELSE <<>>

\* MasterProcess.trace_asset: ret holds the entries printed
master_trace_asset(asset_id, limit, W) ==
    Narrated(W,
        IF first_entries(trace_asset(W.ledger.blocks_by_hash, asset_id),
                         limit) = <<>>
        THEN "no txs for asset" ELSE "traced",
        first_entries(trace_asset(W.ledger.blocks_by_hash, asset_id), limit))

\* mine_outcome that empties the mempool when mine_block has failed
mine_outcome_purging(n, W, prs, r) ==
    IF ~r.ok
    THEN [world |-> [W EXCEPT !.mempool[n] = <<>>], ret |-> None,
          reason |-> "mining failed: no valid transactions to mine"]
    ELSE LET W1 == [W EXCEPT !.ledger = r.ledger,
                             !.last_mined_block[n] = r.block,
                             !.mempool[n] = pool_pop_all(@, r.block.txs, 1)]
             W2 == broadcast_block(prs[n], 1, r.block, W1)
         IN [world |-> on_block_mined(n, r.block, W2),
             ret |-> r.block, reason |-> "mined"]

\* mine_outcome that sets last_mined_block after the master has been told
mine_outcome_late(n, W, prs, r) ==
    IF ~r.ok
    THEN [world |-> W, ret |-> None,
          reason |-> "mining failed: no valid transactions to mine"]
    ELSE LET W1 == [W EXCEPT !.ledger = r.ledger,
                             !.mempool[n] = pool_pop_all(@, r.block.txs, 1)]
             W2 == broadcast_block(prs[n], 1, r.block, W1)
         IN [world |-> [on_block_mined(n, r.block, W2)
                           EXCEPT !.last_mined_block[n] = r.block],
             ret |-> r.block, reason |-> "mined"]

\* FullNode.mine from the try statement on: r is what mine_block did
mine_outcome(n, W, prs, r) ==
    IF ~r.ok
    THEN [world |-> W, ret |-> None,
          reason |-> "mining failed: no valid transactions to mine"]
    ELSE LET W1 == [W EXCEPT !.ledger = r.ledger,
                             !.last_mined_block[n] = r.block,
                             !.mempool[n] = pool_pop_all(@, r.block.txs, 1)]
             W2 == broadcast_block(prs[n], 1, r.block, W1)
         IN [world |-> on_block_mined(n, r.block, W2),
             ret |-> r.block, reason |-> "mined"]

\* FullNode.mine
mine(n, W, prs) ==
    IF W.mempool[n] = <<>>
    THEN [world |-> W, ret |-> None, reason |-> "nothing to mine"]
    ELSE mine_outcome(n, W, prs, mine_block(W.ledger, W.mempool[n]))

\* validate_transaction that takes the inputs it found out of the UTXO set
validate_twice_consuming(tx, W) ==
    [world |-> [W EXCEPT !.ledger.utxo =
                   IF validate_transaction(tx, W.ledger.utxo).ok
                   THEN remove_inputs(@, tx.inputs, 1) ELSE @],
     first |-> validate_transaction(tx, W.ledger.utxo),
     second |-> validate_transaction(tx,
                   IF validate_transaction(tx, W.ledger.utxo).ok
                   THEN remove_inputs(W.ledger.utxo, tx.inputs, 1)
                   ELSE W.ledger.utxo)]

\* two validate_transaction calls in a row on one transaction, as
\* receive_transaction and then mine_block make them: the world the calls
\* leave behind and the two (ok, reason) pairs
validate_twice(tx, W) ==
    [world |-> W,
     first |-> validate_transaction(tx, W.ledger.utxo),
     second |-> validate_transaction(tx, W.ledger.utxo)]

\* ------------------------------------------- traffic generator (utils.py)
\* shares the model lets random.randint draw
ShareChoices == {1}

\* wallets the model lets random.choice(wallets) pick as recipient
Recipients == {2}

\* "broken-asset"
BROKEN_ASSET == 99

\* the owner search of create_random_valid_tx: first wallet whose
\* pubkey_hash matches, 0 when there is none
owner_wallet(pkh) ==
    IF \E w \in Wallets : pubkey_hash(w) = pkh
    THEN CHOOSE w \in Wallets :
            /\ pubkey_hash(w) = pkh
            /\ \A v \in Wallets : pubkey_hash(v) = pkh => w <= v
    ELSE 0

\* the share loop of create_random_valid_tx: output i < k-1 draws
\* randint(1, remaining - (k - i - 1)), the last one takes the remainder
RECURSIVE share_lists(_, _, _)
share_lists(remaining, k, i) ==
    IF i = k - 1 THEN {<<remaining>>}
    ELSE UNION {{<<p>> \o rest : rest \in share_lists(remaining - p, k, i + 1)} :
                p \in {q \in ShareChoices : q <= remaining - (k - i - 1)}}

\* sign every input with one wallet over the signing form (dummy inputs
\* first, as create_random_valid_tx and create_transfer_tx do)
signed_tx(outpoints, pubkey, signer, outs) ==
    LET dummy == [i \in 1 .. Len(outpoints) |->
                     TxInput(outpoints[i][1], outpoints[i][2], pubkey,
                             EMPTY_SIG)]
        msg_hash == message_hash(Transaction(dummy, outs))
        ins == [i \in 1 .. Len(outpoints) |->
                   TxInput(outpoints[i][1], outpoints[i][2], pubkey,
                           sign(signer, msg_hash))]
    IN Transaction(ins, outs)

\* create_random_valid_tx for one draw of outpoint, shares and recipients
create_random_valid_tx(utxos, op, shares, recips) ==
    LET utxo0 == utxos[op]
        outs == [i \in 1 .. Len(shares) |->
                    TxOutput(utxo0.asset_id, pubkey_hash(recips[i]), shares[i])]
        owner == owner_wallet(utxo0.pubkey_hash)
    IN signed_tx(<<op>>, pubkey_hex(owner), owner, outs)

ValidTxs(utxos) ==
    UNION {UNION {{create_random_valid_tx(utxos, op, shares, recips) :
                      shares \in share_lists(utxos[op].portion, k, 0),
                      recips \in [1 .. k -> Recipients]} :
                  k \in 1 .. MaxK} :
           op \in {o \in DOMAIN utxos :
                      owner_wallet(utxos[o].pubkey_hash) # 0}}

InvalidModes == {"portion", "asset", "pubkey", "signature"}

\* create_random_invalid_tx: copy, one mutation, txid recomputed
create_random_invalid_tx(base, mode, fake_w) ==
    LET outs == IF mode = "portion"
                THEN [base.outputs EXCEPT ![1].portion = @ + 1]
                ELSE IF mode = "asset"
                THEN [base.outputs EXCEPT ![1].asset_id = BROKEN_ASSET]
                ELSE base.outputs
        ins == IF mode = "pubkey"
               THEN [base.inputs EXCEPT ![1].pubkey = pubkey_hex(fake_w)]
               ELSE IF mode = "signature"
               THEN [base.inputs EXCEPT
                       ![1].signature = sign(fake_w, message_hash(base))]
               ELSE base.inputs
    IN Transaction(ins, outs)

InvalidTxs(utxos) ==
    {create_random_invalid_tx(base, mode, fake_w) :
        base \in ValidTxs(utxos), mode \in InvalidModes, fake_w \in Wallets}

\* transactions built by hand by a caller of the node interface
CraftedTxs(utxos) ==
    LET w == CHOOSE r \in Recipients : TRUE
        ops == DOMAIN utxos
    IN  \* no inputs: accepted as coinbase by validate_transaction
        {Transaction(<<>>, <<TxOutput(0, pubkey_hash(w), 100)>>)}
        \cup
        \* an output of portion 0 next to the full amount
        {signed_tx(<<o>>, owner_wallet(utxos[o].pubkey_hash),
                   owner_wallet(utxos[o].pubkey_hash),
                   <<TxOutput(utxos[o].asset_id, pubkey_hash(w), 0),
                     TxOutput(utxos[o].asset_id, pubkey_hash(w),
                              utxos[o].portion)>>) : o \in ops}
        \cup
        \* two inputs (also the same outpoint twice) merged into one output
        {signed_tx(<<o1, o2>>, owner_wallet(utxos[o1].pubkey_hash),
                   owner_wallet(utxos[o1].pubkey_hash),
                   <<TxOutput(utxos[o1].asset_id, pubkey_hash(w),
                              utxos[o1].portion + utxos[o2].portion)>>) :
            o1 \in ops, o2 \in ops}
        \cup
        \* somebody else's output, claimed and signed with the claimant's key
        {signed_tx(<<o>>, v, v,
                   <<TxOutput(utxos[o].asset_id, pubkey_hash(v),
                              utxos[o].portion)>>) :
            o \in ops, v \in Wallets}
        \cup
        \* an outpoint that never existed
        {signed_tx(<<<<ZERO_HASH, 0>>>>, w, w,
                   <<TxOutput(0, pubkey_hash(w), 100)>>)}

\* ------------------------------------------------------------------- state
VARIABLES
    blocks_by_hash,     \* Blockchain.blocks_by_hash
    height_tip_hash,    \* Blockchain.height_tip_hash
    utxo,               \* Blockchain.utxo.utxos
    mempool,            \* FullNode.mempool, per node
    peers,              \* FullNode.peers, per node
    last_mined_block,   \* FullNode.last_mined_block, per node
    broadcasts,         \* number of receive_block calls made by mine()
    master_reports,     \* on_block_mined calls, in order
    submitted,          \* number of transactions the nodes admitted so far
    flood_calls,        \* receive_transaction calls the last flood made
    user_proc,          \* the UserProcess thread: position, flag, tx in hand
    mining,             \* the mine_block calls under way in mining threads
    result              \* what the last call returned or printed

vars == <<blocks_by_hash, height_tip_hash, utxo, mempool, peers,
          last_mined_block, broadcasts, master_reports, submitted,
          flood_calls, user_proc, mining, result>>

TheLedger == Ledger(blocks_by_hash, height_tip_hash, utxo)

TheWorld ==
    World(TheLedger, mempool, last_mined_block, broadcasts, master_reports)

SetLedger(L) ==
    /\ blocks_by_hash' = L.blocks_by_hash
    /\ height_tip_hash' = L.height_tip_hash
    /\ utxo' = L.utxo

SetWorld(W) ==
    /\ SetLedger(W.ledger)
    /\ mempool' = W.mempool
    /\ last_mined_block' = W.last_mined_block
    /\ broadcasts' = W.broadcasts
    /\ master_reports' = W.master_reports

Result(op, n, ok, reason, ret) ==
    [op |-> op, node |-> n, ok |-> ok, reason |-> reason, ret |-> ret]

\* no call in progress: the caller has taken the last result
IDLE == Result("idle", 0, TRUE, "", None)

\* every transaction of every stored block
ChainTxs ==
    UNION {{blocks_by_hash[h].txs[i] : i \in 1 .. Len(blocks_by_hash[h].txs)} :
           h \in DOMAIN blocks_by_hash}

PoolTxs ==
    UNION {{mempool[n][i] : i \in 1 .. Len(mempool[n])} : n \in Nodes}

KnownTxs == ChainTxs \cup PoolTxs

\* state-changing calls the run may still make
Budget ==
    MaxCalls - submitted - Cardinality(DOMAIN blocks_by_hash)

\* UserProcess(): not started, running = False
NEW_USER_PROC ==
    [pc |-> "new", running |-> FALSE, stopped |-> FALSE, node |-> 0,
     tx |-> None, sent |-> 0]

\* mining threads: none has a mine_block call under way
Miners == {1, 2}
NO_MINING == [m \in Miners |-> None]

\* Blockchain() on an empty store, then initiate_fullnodes
Init ==
    /\ blocks_by_hash = EMPTY_MAP
    /\ height_tip_hash = NO_TIP
    /\ utxo = EMPTY_MAP
    /\ mempool = [n \in Nodes |-> <<>>]
    /\ peers = [n \in Nodes |-> mesh_peers(n)]
    /\ last_mined_block = [n \in Nodes |-> None]
    /\ broadcasts = 0
    /\ master_reports = <<>>
    /\ submitted = 0
    /\ flood_calls = <<>>
    /\ user_proc = NEW_USER_PROC
    /\ mining = NO_MINING
    /\ result = IDLE

\* initiate daChain N on a ledger without blocks
AddGenesisBlock ==
    /\ DOMAIN blocks_by_hash = {}
    /\ SetLedger(add_genesis_block(TheLedger, create_genesis(Len(InitialWallets), InitialWallets)))
    /\ result' = Result("add_genesis_block", 0, TRUE, "", None)
    /\ UNCHANGED <<mempool, peers, last_mined_block, broadcasts,
                   master_reports, submitted, flood_calls, user_proc, mining>>

\* the transactions the environment hands to a node
TxChoices ==
    ValidTxs(utxo) \cup InvalidTxs(utxo) \cup CraftedTxs(utxo)

\* the flood one receive_transaction call at node n runs
flood_of(n, tx) ==
    receive_transaction(n, tx, Flood(mempool, <<>>), utxo, peers)

ReceiveTransaction(n, tx) ==
    /\ Budget > 0
    /\ mempool' = flood_of(n, tx).pools
    /\ flood_calls' = flood_of(n, tx).calls
    /\ submitted' = IF mempool' # mempool THEN submitted + 1 ELSE submitted
    /\ result' = Result("receive_transaction", n, mempool' # mempool,
                        receive_transaction_reason(n, tx, mempool, utxo), None)
    /\ UNCHANGED <<blocks_by_hash, height_tip_hash, utxo, peers,
                   last_mined_block, broadcasts, master_reports,
                   user_proc, mining>>

Mine(n) ==
    /\ LET r == mine(n, TheWorld, peers)
       IN /\ r.ret # None => Budget > 0
          /\ SetWorld(r.world)
          /\ result' = Result("mine", n, r.ret # None, r.reason, r.ret)
    /\ UNCHANGED <<peers, submitted, flood_calls, user_proc, mining>>

\* a block with the given header fields over the given transactions
make_block(height, prev_hash, root, mined, txs) ==
    Block(BlockHeader(height, prev_hash, root,
                      IF mined THEN find_nonce(height, prev_hash, root, 0)
                      ELSE 0),
          txs)

\* blocks a remote miner holding this node's pending list could send: the
\* honest one, and the ones with a single header field off
BlockChoices(n) ==
    LET txs == mempool[n]
        root == merkle_root(txids_of(txs))
        pos == next_position(TheLedger)
    IN IF txs = <<>> THEN {}
       ELSE {make_block(pos.height, pos.prev_hash, root, TRUE, txs),
             make_block(pos.height + 1, pos.prev_hash, root, TRUE, txs),
             make_block(pos.height, pos.prev_hash + 1, root, TRUE, txs),
             make_block(pos.height, pos.prev_hash, root + 1, TRUE, txs),
             make_block(pos.height, pos.prev_hash, root, FALSE, txs)}

ReceiveBlock(n, block) ==
    /\ LET r == receive_block(n, block, TheWorld)
       IN /\ r.reason = "accepted" => Budget > 0
          /\ SetWorld(r.world)
          /\ result' = Result("receive_block", n, r.reason = "accepted",
                              r.reason, None)
    /\ UNCHANGED <<peers, submitted, flood_calls, user_proc, mining>>

\* the caller takes the result of the call; the next call can start
Return ==
    /\ result # IDLE
    /\ result' = IDLE
    /\ flood_calls' = <<>>
    /\ UNCHANGED <<blocks_by_hash, height_tip_hash, utxo, mempool, peers,
                   last_mined_block, broadcasts, master_reports, submitted,
                   user_proc, mining>>

Next ==
    \/ result = IDLE /\ AddGenesisBlock
    \/ result = IDLE
       /\ \E tx \in TxChoices : \E n \in Nodes : ReceiveTransaction(n, tx)
    \/ result = IDLE /\ \E n \in Nodes : Mine(n)
    \/ result = IDLE
       /\ \E n \in Nodes : \E block \in BlockChoices(n) : ReceiveBlock(n, block)
    \/ Return

Spec == Init /\ [][Next]_vars

\* ------------------------------------------------ read-only operations
\* the outcome r of a call that reports and is meant to change nothing
Observed(op, n, ok, reason, ret, W) ==
    /\ SetWorld(W)
    /\ result' = Result(op, n, ok, reason, ret)
    /\ UNCHANGED <<peers, submitted, flood_calls, user_proc, mining>>

ValidateTransaction(tx, r) ==
    Observed("validate_transaction", 0, r.first.ok, r.first.reason, r.second,
             r.world)

NextObserve ==
    \/ Next
    \/ result = IDLE
       /\ \E tx \in TxChoices : ValidateTransaction(tx, validate_twice(tx, TheWorld))

ObserveSpec == Init /\ [][NextObserve]_vars

\* ---------------------------------------------- any peer graph (node.py)
\* the ledger initiate daChain leaves behind
GenesisLedger ==
    add_genesis_block(Ledger(EMPTY_MAP, NO_TIP, EMPTY_MAP),
                      create_genesis(Len(InitialWallets), InitialWallets))

\* initiate daChain, then FullNode() objects before any connect_peer call
InitGraph ==
    /\ blocks_by_hash = GenesisLedger.blocks_by_hash
    /\ height_tip_hash = GenesisLedger.height_tip_hash
    /\ utxo = GenesisLedger.utxo
    /\ mempool = [n \in Nodes |-> <<>>]
    /\ peers = [n \in Nodes |-> <<>>]
    /\ last_mined_block = [n \in Nodes |-> None]
    /\ broadcasts = 0
    /\ master_reports = <<>>
    /\ submitted = 0
    /\ flood_calls = <<>>
    /\ user_proc = NEW_USER_PROC
    /\ mining = NO_MINING
    /\ result = IDLE

\* FullNode.connect_peer: n.connect_peer(m), m may be n itself
ConnectPeer(n, m) ==
    /\ \A i \in 1 .. Len(peers[n]) : peers[n][i] # m
    /\ peers' = [peers EXCEPT ![n] = Append(@, m)]
    /\ UNCHANGED <<blocks_by_hash, height_tip_hash, utxo, mempool,
                   last_mined_block, broadcasts, master_reports, submitted,
                   flood_calls, user_proc, mining, result>>

\* the transactions UserProcess hands to a node
GeneratedTxs ==
    ValidTxs(utxo) \cup InvalidTxs(utxo)

NextGraph ==
    \/ result = IDLE /\ \E n \in Nodes : \E m \in Nodes : ConnectPeer(n, m)
    \/ result = IDLE
       /\ \E tx \in GeneratedTxs : \E n \in Nodes : ReceiveTransaction(n, tx)
    \/ Return

GraphSpec == InitGraph /\ [][NextGraph]_vars

\* ------------------------------------------------- master commands
\* node names the commands are given: the nodes and one that does not exist
AskedNodes == Nodes \cup {Cardinality(Nodes)}

\* asset names the trace command is given
AskedAssets == {0, BROKEN_ASSET}

\* limits the trace command is given
AskedLimits == {None} \cup {[k |-> i] : i \in -1 .. 1}

Narrate(op, n, r) ==
    Observed(op, n, TRUE, r.outcome, r.ret, r.world)

\* the callback run again on the block a node mined last (the reports are
\* capped by the number of stored blocks)
OnBlockMined(n) ==
    /\ last_mined_block[n] # None
    /\ Len(master_reports) < Cardinality(DOMAIN blocks_by_hash)
    /\ Observed("on_block_mined", n, TRUE, "", None,
                on_block_mined(n, last_mined_block[n], TheWorld))

VerifyTransaction(n, from_last_block) ==
    Narrate("verify_transaction", n,
            verify_transaction(n, from_last_block, TheWorld))

SnapshotDaChain(only_node) ==
    Narrate("snapshot_daChain", 0, snapshot_daChain(only_node, TheWorld))

TraceAsset(asset_id, limit) ==
    Narrate("trace_asset", 0, master_trace_asset(asset_id, limit, TheWorld))

NextMaster ==
    \/ Next
    \/ result = IDLE /\ \E n \in Nodes : OnBlockMined(n)
    \/ result = IDLE
       /\ \E n \in AskedNodes : \E f \in BOOLEAN : VerifyTransaction(n, f)
    \/ result = IDLE
       /\ \E n \in AskedNodes \cup {ALL_NODES} : SnapshotDaChain(n)
    \/ result = IDLE
       /\ \E a \in AskedAssets : \E k \in AskedLimits : TraceAsset(a, k)

MasterSpec == Init /\ [][NextMaster]_vars

\* ------------------------------------------- the generator thread
\* UserProcess.run, one step per statement that reads or writes shared
\* state; no statement of the program takes a lock
\* while self.running
UserTest ==
    /\ user_proc.pc = "test"
    /\ user_proc' = [user_proc EXCEPT
                        !.pc = IF user_proc.running THEN "body" ELSE "done"]
    /\ UNCHANGED <<blocks_by_hash, height_tip_hash, utxo, mempool, peers,
                   last_mined_block, broadcasts, master_reports, submitted,
                   flood_calls, mining, result>>

\* the transaction is built from the UTXO set and handed to
\* node.receive_transaction, which runs up to the return of
\* validate_transaction
UserSend(n, tx) ==
    /\ user_proc.pc = "body"
    /\ \/ Budget > 0
       \/ in_mempool(mempool[n], tx.txid)
       \/ ~validate_transaction(tx, utxo).ok
    /\ user_proc' =
          [user_proc EXCEPT
              !.pc = IF \/ in_mempool(mempool[n], tx.txid)
                        \/ ~validate_transaction(tx, utxo).ok
                     THEN "sleep" ELSE "validated",
              !.node = n,
              !.tx = tx,
              !.sent = IF user_proc.stopped /\ user_proc.sent < MaxSent
                       THEN user_proc.sent + 1 ELSE user_proc.sent]
    /\ UNCHANGED <<blocks_by_hash, height_tip_hash, utxo, mempool, peers,
                   last_mined_block, broadcasts, master_reports, submitted,
                   flood_calls, mining, result>>

\* receive_transaction from self.mempool[tx.txid] = tx on: the insertion
\* and the forwarding loop
UserAdmit ==
    /\ user_proc.pc = "validated"
    /\ mempool' =
          forward_transaction(peers[user_proc.node], 1, user_proc.tx,
              Flood([mempool EXCEPT ![user_proc.node] = Append(@, user_proc.tx)],
                    <<>>),
              utxo, peers).pools
    /\ submitted' = submitted + 1
    /\ user_proc' = [user_proc EXCEPT !.pc = "sleep"]
    /\ UNCHANGED <<blocks_by_hash, height_tip_hash, utxo, peers,
                   last_mined_block, broadcasts, master_reports,
                   flood_calls, mining, result>>

\* time.sleep(self.interval)
UserSleep ==
    /\ user_proc.pc = "sleep"
    /\ user_proc' = [user_proc EXCEPT !.pc = "test", !.tx = None]
    /\ UNCHANGED <<blocks_by_hash, height_tip_hash, utxo, mempool, peers,
                   last_mined_block, broadcasts, master_reports, submitted,
                   flood_calls, mining, result>>

\* Thread.start(): returns once the thread exists, before run() has
\* executed a statement
UserStart ==
    /\ user_proc.pc = "new"
    /\ user_proc' = [user_proc EXCEPT !.pc = "started"]
    /\ UNCHANGED <<blocks_by_hash, height_tip_hash, utxo, mempool, peers,
                   last_mined_block, broadcasts, master_reports, submitted,
                   flood_calls, mining, result>>

\* self.running = True, the first statement of run()
UserRunBegin ==
    /\ user_proc.pc = "started"
    /\ user_proc' = [user_proc EXCEPT !.pc = "test", !.running = TRUE]
    /\ UNCHANGED <<blocks_by_hash, height_tip_hash, utxo, mempool, peers,
                   last_mined_block, broadcasts, master_reports, submitted,
                   flood_calls, mining, result>>

\* UserProcess.stop(), called by another thread on a started process
UserStop ==
    /\ user_proc.pc # "new"
    /\ ~user_proc.stopped
    /\ user_proc' = [user_proc EXCEPT !.running = FALSE, !.stopped = TRUE]
    /\ UNCHANGED <<blocks_by_hash, height_tip_hash, utxo, mempool, peers,
                   last_mined_block, broadcasts, master_reports, submitted,
                   flood_calls, mining, result>>

\* initiate daChain, initiate fullNodes, run userProcess: the thread is in
\* its loop
InitConc ==
    /\ blocks_by_hash = GenesisLedger.blocks_by_hash
    /\ height_tip_hash = GenesisLedger.height_tip_hash
    /\ utxo = GenesisLedger.utxo
    /\ mempool = [n \in Nodes |-> <<>>]
    /\ peers = [n \in Nodes |-> mesh_peers(n)]
    /\ last_mined_block = [n \in Nodes |-> None]
    /\ broadcasts = 0
    /\ master_reports = <<>>
    /\ submitted = 0
    /\ flood_calls = <<>>
    /\ user_proc = [NEW_USER_PROC EXCEPT !.pc = "test", !.running = TRUE]
    /\ mining = NO_MINING
    /\ result = IDLE

\* the command loop mines while the generator thread runs
NextConc ==
    \/ result = IDLE /\ \E n \in Nodes : Mine(n)
    \/ Return
    \/ UserTest
    \/ \E n \in Nodes : \E tx \in GeneratedTxs : UserSend(n, tx)
    \/ UserAdmit
    \/ UserSleep

ConcSpec == InitConc /\ [][NextConc]_vars

\* initiate daChain, initiate fullNodes, UserProcess(...)
InitUser ==
    /\ blocks_by_hash = GenesisLedger.blocks_by_hash
    /\ height_tip_hash = GenesisLedger.height_tip_hash
    /\ utxo = GenesisLedger.utxo
    /\ mempool = [n \in Nodes |-> <<>>]
    /\ peers = [n \in Nodes |-> mesh_peers(n)]
    /\ last_mined_block = [n \in Nodes |-> None]
    /\ broadcasts = 0
    /\ master_reports = <<>>
    /\ submitted = 0
    /\ flood_calls = <<>>
    /\ user_proc = NEW_USER_PROC
    /\ mining = NO_MINING
    /\ result = IDLE

\* the steps of the generator thread outside the call it makes
UserStep ==
    \/ UserRunBegin
    \/ UserTest
    \/ UserAdmit
    \/ UserSleep

NextUser ==
    \/ UserStart
    \/ UserStop
    \/ UserStep
    \/ \E n \in Nodes : \E tx \in GeneratedTxs : UserSend(n, tx)

\* the scheduler lets a thread that can run take its next step, and
\* building a transaction and validating it always come to an end
UserSpec ==
    /\ InitUser /\ [][NextUser]_vars
    /\ WF_vars(UserStep)
    /\ []<>(user_proc.pc # "body")

\* ------------------------------------------------------ mining threads
\* start_mining starts a thread that calls blockchain.mine_block on the
\* pending list; the selection loop, the reading of the tip and the nonce
\* search of thread m are done, the block is not stored yet
MineStart(m, n) ==
    /\ mining[m] = None
    /\ Budget > 0
    /\ select_valid(mempool[n], utxo, 1, <<>>) # <<>>
    /\ mining' =
          [mining EXCEPT ![m] =
              [node |-> n,
               block |-> Block(mined_header(next_position(TheLedger),
                                   merkle_root(txids_of(
                                       select_valid(mempool[n], utxo, 1, <<>>)))),
                               select_valid(mempool[n], utxo, 1, <<>>))]]
    /\ UNCHANGED <<blocks_by_hash, height_tip_hash, utxo, mempool, peers,
                   last_mined_block, broadcasts, master_reports, submitted,
                   flood_calls, user_proc, result>>

\* the success branch of mine_block in thread m, then the removal of the
\* mined transactions from the pending list
MineCommit(m) ==
    /\ mining[m] # None
    /\ \/ Budget > 0
       \/ header_hash(mining[m].block.header) \in DOMAIN blocks_by_hash
    /\ SetLedger(commit_block(TheLedger, mining[m].block,
                              header_hash(mining[m].block.header)).ledger)
    /\ mempool' = [mempool EXCEPT ![mining[m].node] =
                      pool_pop_all(@, mining[m].block.txs, 1)]
    /\ mining' = [mining EXCEPT ![m] = None]
    /\ UNCHANGED <<peers, last_mined_block, broadcasts, master_reports,
                   submitted, flood_calls, user_proc, result>>

\* the ledger after genesis, transactions arriving, mining threads started
\* with nothing that keeps a second one from starting
InitMining ==
    /\ blocks_by_hash = GenesisLedger.blocks_by_hash
    /\ height_tip_hash = GenesisLedger.height_tip_hash
    /\ utxo = GenesisLedger.utxo
    /\ mempool = [n \in Nodes |-> <<>>]
    /\ peers = [n \in Nodes |-> mesh_peers(n)]
    /\ last_mined_block = [n \in Nodes |-> None]
    /\ broadcasts = 0
    /\ master_reports = <<>>
    /\ submitted = 0
    /\ flood_calls = <<>>
    /\ user_proc = NEW_USER_PROC
    /\ mining = NO_MINING
    /\ result = IDLE

NextMining ==
    \/ result = IDLE
       /\ \E tx \in GeneratedTxs : \E n \in Nodes : ReceiveTransaction(n, tx)
    \/ Return
    \/ \E m \in Miners : \E n \in Nodes : MineStart(m, n)
    \/ \E m \in Miners : MineCommit(m)

MiningSpec == InitMining /\ [][NextMining]_vars

\* ------------------------------------------- block documents (blockchain.py)
\* the "inputs"/"outputs" lists of a transaction document hold the to_dict
\* forms; the "timestamp" field is written and never read back
tx_to_dict(tx) ==
    [txid |-> tx.txid,
     inputs |-> [j \in 1 .. Len(tx.inputs) |->
                    TxInput_to_dict(tx.inputs[j], TRUE)],
     outputs |-> [j \in 1 .. Len(tx.outputs) |->
                     TxOutput_to_dict(tx.outputs[j])]]

\* the transaction loop of _block_from_dict: the fields are read by key
\* and Transaction() computes the txid again; the stored "txid" is not read
tx_from_dict(tx_data) ==
    Transaction([j \in 1 .. Len(tx_data.inputs) |->
                    LET inp == tx_data.inputs[j]
                    IN TxInput(inp[5], inp[1], inp[2],
                               [signer |-> inp[3], msg |-> inp[4]])],
                [j \in 1 .. Len(tx_data.outputs) |->
                    LET out == tx_data.outputs[j]
                    IN TxOutput(out[1], out[3], out[2])])

block_to_dict(block, block_hash) ==
    [hash |-> block_hash,
     height |-> block.header.height,
     prev_hash |-> block.header.prev_hash,
     merkle_root |-> block.header.merkle_root,
     nonce |-> block.header.nonce,
     txs |-> [i \in 1 .. Len(block.txs) |-> tx_to_dict(block.txs[i])]]

block_from_dict(data) ==
    Block(BlockHeader(data.height, data.prev_hash, data.merkle_root,
                      data.nonce),
          [i \in 1 .. Len(data.txs) |-> tx_from_dict(data.txs[i])])

\* ----------------------------------------------------- an arbitrary store
\* hashes under which the store holds blocks, and one it does not hold
StoreHashes == {1, 2, 3}
MISSING_HASH == 4

\* a stored block document: _load_from_db keys it by its "hash" field
\* without recomputing the header hash
StoredBlocks ==
    {Block(BlockHeader(0, prev, 0, 0), <<>>) :
        prev \in StoreHashes \cup {ZERO_HASH, NO_TIP, MISSING_HASH}}

\* Blockchain() over a store of any content
InitStore ==
    /\ blocks_by_hash \in UNION {[D -> StoredBlocks] : D \in SUBSET StoreHashes}
    /\ height_tip_hash \in StoreHashes \cup {NO_TIP, MISSING_HASH}
    /\ utxo = EMPTY_MAP
    /\ mempool = [n \in Nodes |-> <<>>]
    /\ peers = [n \in Nodes |-> mesh_peers(n)]
    /\ last_mined_block = [n \in Nodes |-> None]
    /\ broadcasts = 0
    /\ master_reports = <<>>
    /\ submitted = 0
    /\ flood_calls = <<>>
    /\ user_proc = NEW_USER_PROC
    /\ mining = NO_MINING
    /\ result = IDLE

BuildChainFromTip ==
    Observed("build_chain_from_tip", 0, TRUE, "",
             [chain |-> build_chain_from_tip(TheLedger)], TheWorld)

NextStore ==
    \/ result = IDLE /\ BuildChainFromTip
    \/ Return

StoreSpec == InitStore /\ [][NextStore]_vars

\* ------------------------------------------------- a second process
\* the keys Wallet() draws in a later run of the command line
RestartWallets == <<3>>

\* the command line is started again over the same store and asked to
\* initiate daChain: Blockchain() loads what add_genesis_block wrote (the
\* block, the highest block as tip, the unspent outputs), initiate_dachain
\* sees self.blockchain is None, and add_genesis_block is called with the
\* genesis block of fresh wallets; the nodes of the new run start empty
InitiateDaChainAgain ==
    /\ TheLedger = GenesisLedger
    /\ Budget > 0
    /\ SetLedger(add_genesis_block(GenesisLedger,
                     create_genesis(Len(RestartWallets), RestartWallets)))
    /\ mempool' = [n \in Nodes |-> <<>>]
    /\ last_mined_block' = [n \in Nodes |-> None]
    /\ result' = Result("add_genesis_block", 0, TRUE, "", None)
    /\ UNCHANGED <<peers, broadcasts, master_reports, submitted, flood_calls,
                   user_proc, mining>>

NextRestart ==
    \/ Next
    \/ result = IDLE /\ InitiateDaChainAgain

RestartSpec == Init /\ [][NextRestart]_vars

\* ------------------------------------------------- a long pending list
\* initiate daChain 2: asset 0 belongs to wallet 1, asset 1 to wallet 2
TwoAssetLedger ==
    add_genesis_block(Ledger(EMPTY_MAP, NO_TIP, EMPTY_MAP),
                      create_genesis(2, <<1, 2>>))

\* the genesis output of asset a
asset_outpoint(a) ==
    CHOOSE k \in DOMAIN TwoAssetLedger.utxo : TwoAssetLedger.utxo[k].asset_id = a

\* create_random_valid_tx drawing the output of asset a and the shares
\* p and the remainder
split_tx(a, p) ==
    create_random_valid_tx(TwoAssetLedger.utxo, asset_outpoint(a),
                           <<p, 100 - p>>, <<2, 2>>)

\* create_random_valid_tx drawing asset 0 and one output
whole_tx ==
    create_random_valid_tx(TwoAssetLedger.utxo, asset_outpoint(0),
                           <<100>>, <<2>>)

\* F1 lists F0 as its peer, F0 lists nobody
one_way_peers ==
    [n \in Nodes |-> IF n = 1 THEN <<0>> ELSE <<>>]

\* F0 has admitted whole_tx and then transactions spending asset 0
\* (of_asset_1[i] false) and asset 1 (true), every one valid when it came in
admitted(of_asset_1) ==
    <<whole_tx>> \o [i \in 1 .. Len(of_asset_1) |->
                        split_tx(IF of_asset_1[i] THEN 1 ELSE 0, i)]

\* the world after F1 has mined whole_tx: the transactions of F0's mempool
\* that spend asset 0 no longer validate
world_after_first_block(of_asset_1) ==
    mine(1,
         World(TwoAssetLedger,
               [n \in Nodes |-> IF n = 0 THEN admitted(of_asset_1)
                                ELSE <<whole_tx>>],
               [n \in Nodes |-> None], 0, <<>>),
         one_way_peers).world

InitPending ==
    /\ \E len \in 0 .. MaxPending : \E of_asset_1 \in [1 .. len -> BOOLEAN] :
          LET W == world_after_first_block(of_asset_1)
          IN /\ blocks_by_hash = W.ledger.blocks_by_hash
             /\ height_tip_hash = W.ledger.height_tip_hash
             /\ utxo = W.ledger.utxo
             /\ mempool = W.mempool
             /\ last_mined_block = W.last_mined_block
             /\ broadcasts = W.broadcasts
             /\ master_reports = W.master_reports
    /\ peers = one_way_peers
    /\ submitted = 0
    /\ flood_calls = <<>>
    /\ user_proc = NEW_USER_PROC
    /\ mining = NO_MINING
    /\ result = IDLE

NextPending ==
    \/ result = IDLE /\ \E n \in Nodes : Mine(n)
    \/ Return

PendingSpec == InitPending /\ [][NextPending]_vars

\* ------------------------------------------------- a stored second block
\* a transaction wallet w builds and signs with its own key, owner of the
\* output or not, moving the whole output to itself
claimed_tx(utxos, op, w) ==
    signed_tx(<<op>>, pubkey_hex(w), w,
              <<TxOutput(utxos[op].asset_id, pubkey_hash(w), utxos[op].portion)>>)

\* leftmost transactions of the block the store holds above the genesis
\* block; _load_from_db validates nothing it loads
StoredLeftmost ==
    ValidTxs(GenesisLedger.utxo) \cup InvalidTxs(GenesisLedger.utxo)
    \cup {claimed_tx(GenesisLedger.utxo, op, w) :
             op \in DOMAIN GenesisLedger.utxo, w \in Wallets}

stored_block(tx) ==
    Block(mined_header(next_position(GenesisLedger), merkle_root(<<tx.txid>>)),
          <<tx>>)

\* Blockchain() over a store that holds the genesis block and one more
\* block: the highest block becomes the tip
InitVerify ==
    /\ \E tx \in StoredLeftmost :
          /\ blocks_by_hash = put_block(GenesisLedger.blocks_by_hash,
                                        header_hash(stored_block(tx).header),
                                        stored_block(tx))
          /\ height_tip_hash = header_hash(stored_block(tx).header)
          /\ utxo = apply_transaction(GenesisLedger.utxo, tx)
    /\ mempool = [n \in Nodes |-> <<>>]
    /\ peers = [n \in Nodes |-> mesh_peers(n)]
    /\ last_mined_block = [n \in Nodes |-> None]
    /\ broadcasts = 0
    /\ master_reports = <<>>
    /\ submitted = 0
    /\ flood_calls = <<>>
    /\ user_proc = NEW_USER_PROC
    /\ mining = NO_MINING
    /\ result = IDLE

NextVerify ==
    \/ result = IDLE
       /\ \E n \in AskedNodes : \E f \in BOOLEAN : VerifyTransaction(n, f)
    \/ result = IDLE
       /\ \E n \in AskedNodes \cup {ALL_NODES} : SnapshotDaChain(n)
    \/ result = IDLE
       /\ \E a \in AskedAssets : \E k \in AskedLimits : TraceAsset(a, k)
    \/ Return

VerifySpec == InitVerify /\ [][NextVerify]_vars

\* ------------------------------------------------- replayed transactions
\* a caller hands a node a transaction copied from a stored block
NextReplay ==
    \/ Next
    \/ result = IDLE
       /\ \E tx \in ChainTxs : \E n \in Nodes : ReceiveTransaction(n, tx)

ReplaySpec == Init /\ [][NextReplay]_vars

\* ------------------------------------------------- the order of the rules
\* transactions of two inputs, each an unspent outpoint or one that never
\* existed, built and signed by wallet w with its own key, owner or not
TwoInputTxs(utxos) ==
    {signed_tx(<<o1, o2>>, pubkey_hex(w), w,
               <<TxOutput(0, pubkey_hash(w), 100)>>) :
        o1 \in DOMAIN utxos \cup {<<ZERO_HASH, 0>>},
        o2 \in DOMAIN utxos \cup {<<ZERO_HASH, 0>>},
        w \in Wallets}

\* Blockchain.validate_transaction(tx), the transaction kept with the answer
ValidateOne(tx) ==
    Observed("validate_transaction", 0, validate_transaction(tx, utxo).ok,
             validate_transaction(tx, utxo).reason, [tx |-> tx], TheWorld)

NextRules ==
    \/ Next
    \/ result = IDLE
       /\ \E tx \in TxChoices \cup TwoInputTxs(utxo) : ValidateOne(tx)

RulesSpec == Init /\ [][NextRules]_vars

\* ------------------------------------------------- the share loop
\* k = random.randint(1, 3)
OutputCounts == 1 .. 3

\* the share loop of create_random_valid_tx over every draw of
\* random.randint(1, remaining - (k - i - 1)); randint raises ValueError
\* when the range is empty
RECURSIVE share_outcomes(_, _, _)
share_outcomes(remaining, k, i) ==
    IF i = k - 1 THEN {[raised |-> FALSE, shares |-> <<remaining>>]}
    ELSE IF remaining - (k - i - 1) < 1
    THEN {[raised |-> TRUE, shares |-> <<>>]}
    ELSE UNION {{[raised |-> r.raised,
                  shares |-> IF r.raised THEN <<>> ELSE <<p>> \o r.shares] :
                    r \in share_outcomes(remaining - p, k, i + 1)} :
                p \in 1 .. remaining - (k - i - 1)}

\* the ledger after the genesis output has been split into p and 100 - p
\* and the split has been mined
split_ledger(p) ==
    mine_block(GenesisLedger,
               <<create_random_valid_tx(GenesisLedger.utxo,
                     CHOOSE op \in DOMAIN GenesisLedger.utxo : TRUE,
                     <<p, 100 - p>>, <<2, 2>>)>>).ledger

InitShares ==
    /\ \E p \in 1 .. MaxPortion :
          /\ blocks_by_hash = split_ledger(p).blocks_by_hash
          /\ height_tip_hash = split_ledger(p).height_tip_hash
          /\ utxo = split_ledger(p).utxo
    /\ mempool = [n \in Nodes |-> <<>>]
    /\ peers = [n \in Nodes |-> mesh_peers(n)]
    /\ last_mined_block = [n \in Nodes |-> None]
    /\ broadcasts = 0
    /\ master_reports = <<>>
    /\ submitted = 0
    /\ flood_calls = <<>>
    /\ user_proc = NEW_USER_PROC
    /\ mining = NO_MINING
    /\ result = IDLE

\* create_random_valid_tx(blockchain, wallets) for one draw of the
\* outpoint, of k and of the shares; the recipients drawn are wallet 2
CreateRandomValidTx(op, k, drawn) ==
    Observed("create_random_valid_tx", 0, ~drawn.raised,
             IF drawn.raised THEN "ValueError" ELSE "",
             [portion |-> utxo[op].portion, k |-> k,
              tx |-> IF drawn.raised THEN None
                     ELSE create_random_valid_tx(utxo, op, drawn.shares,
                                                 [i \in 1 .. k |-> 2])],
             TheWorld)

NextShares ==
    \/ result = IDLE
       /\ \E op \in DOMAIN utxo : \E k \in OutputCounts :
             \E drawn \in share_outcomes(utxo[op].portion, k, 0) :
                CreateRandomValidTx(op, k, drawn)
    \/ Return

SharesSpec == InitShares /\ [][NextShares]_vars

\* ------------------------------------------------- mining without new input
\* the transactions a node admits on the genesis ledger
AdmittedAtGenesis ==
    {tx \in ValidTxs(GenesisLedger.utxo) \cup InvalidTxs(GenesisLedger.utxo)
           \cup CraftedTxs(GenesisLedger.utxo) :
        validate_transaction(tx, GenesisLedger.utxo).ok}

\* the mempools after the nodes of the full mesh have been handed some
\* transactions: every node holds them in the order they were handed in
FilledPools ==
    {pool \in UNION {[1 .. len -> AdmittedAtGenesis] : len \in 0 .. MaxPool} :
        \A i \in 1 .. Len(pool) : \A j \in 1 .. Len(pool) :
            i # j => pool[i].txid # pool[j].txid}

InitDrain ==
    /\ blocks_by_hash = GenesisLedger.blocks_by_hash
    /\ height_tip_hash = GenesisLedger.height_tip_hash
    /\ utxo = GenesisLedger.utxo
    /\ \E pool \in FilledPools : mempool = [n \in Nodes |-> pool]
    /\ peers = [n \in Nodes |-> mesh_peers(n)]
    /\ last_mined_block = [n \in Nodes |-> None]
    /\ broadcasts = 0
    /\ master_reports = <<>>
    /\ submitted = 0
    /\ flood_calls = <<>>
    /\ user_proc = NEW_USER_PROC
    /\ mining = NO_MINING
    /\ result = IDLE

\* mine F<n>, while nobody hands in a transaction
CallMine(n) == result = IDLE /\ Mine(n)

NextDrain ==
    \/ \E n \in Nodes : CallMine(n)
    \/ Return

\* the caller takes every result and calls mine() at every node again
\* and again: a mine() call at node n returns infinitely often
DrainSpec ==
    /\ InitDrain /\ [][NextDrain]_vars
    /\ WF_vars(Return)
    /\ \A n \in Nodes : []<>(result.op = "mine" /\ result.node = n)

\* ------------------------------------------------- initiate daChain N
\* the asset counts the command is given
AskedCounts == {0, 1, 2}

\* [Wallet() for _ in range(2 * n)]: the i-th key drawn is wallet i
created_wallets(n) ==
    [i \in 1 .. 2 * n |-> i]

\* cli.initiate_dachain(n) while self.blockchain is None, over an empty
\* store: 2n wallets, the first n own the genesis assets
InitiateDaChain(n) ==
    /\ DOMAIN blocks_by_hash = {}
    /\ SetLedger(add_genesis_block(TheLedger,
                     create_genesis(n, SubSeq(created_wallets(n), 1, n))))
    /\ result' = Result("initiate_dachain", 0, TRUE, "", [assets |-> n])
    /\ UNCHANGED <<mempool, peers, last_mined_block, broadcasts,
                   master_reports, submitted, flood_calls, user_proc, mining>>

NextInitiate ==
    \/ result = IDLE /\ \E n \in AskedCounts : InitiateDaChain(n)
    \/ result = IDLE
       /\ \E tx \in TxChoices : \E n \in Nodes : ReceiveTransaction(n, tx)
    \/ result = IDLE /\ \E n \in Nodes : Mine(n)
    \/ Return

InitiateSpec == Init /\ [][NextInitiate]_vars

\* every block of the chain map and every known transaction has a digest
\* of its own (the digest is narrow; the runs stay where it does not collide)
DigestsDistinct ==
    /\ \A t1 \in KnownTxs : \A t2 \in KnownTxs :
          t1.txid = t2.txid => t1 = t2
    /\ \A h \in DOMAIN blocks_by_hash :
          /\ header_hash(blocks_by_hash[h].header) = h
          /\ h # ZERO_HASH

\* ------------------------------------------------------------ properties
\* the block initiate daChain stores, and its hash
GenesisBlock == create_genesis(Len(InitialWallets), InitialWallets)
GenesisHash == header_hash(GenesisBlock.header)
HasGenesis == GenesisHash \in DOMAIN blocks_by_hash

\* asset ids of the genesis outputs
GenesisAssets ==
    {GenesisBlock.txs[i].outputs[1].asset_id : i \in 1 .. Len(GenesisBlock.txs)}

RECURSIVE SumPortions(_, _)
SumPortions(keys, asset_id) ==
    IF keys = {} THEN 0
    ELSE LET k == CHOOSE x \in keys : TRUE
         IN (IF utxo[k].asset_id = asset_id THEN utxo[k].portion ELSE 0)
            + SumPortions(keys \ {k}, asset_id)

\* txids a stored block carries
ChainTxids == {tx.txid : tx \in ChainTxs}

\* C1: once the genesis block is stored, the portions of the unspent
\* outputs of every genesis asset add up to exactly 100.
C1_AssetConservation ==
    HasGenesis =>
        \A a \in GenesisAssets : SumPortions(DOMAIN utxo, a) = 100

\* C2: when mine() has returned a block, no node's mempool holds a
\* transaction that a stored block carries (every peer accepted the block
\* and dropped what it includes).
C2_MinedLeavesNoMempool ==
    (result.op = "mine" /\ result.ok) =>
        \A n \in Nodes : \A i \in 1 .. Len(mempool[n]) :
            mempool[n][i].txid \notin ChainTxids

\* C3: every unspent output has a portion between 1 and 100.
C3_PortionRange ==
    \A k \in DOMAIN utxo : utxo[k].portion >= 1 /\ utxo[k].portion <= 100

\* C4: on a chain that holds the genesis block, walking prev_hash from the
\* tip visits height(tip) + 1 distinct stored blocks and ends at a block
\* whose prev_hash is all zeros.
C4_ChainLinear ==
    (HasGenesis /\ height_tip_hash # NO_TIP) =>
        LET chain == build_chain_from_tip(TheLedger)
            tip == tip_of(TheLedger)
        IN /\ tip # None
           /\ Len(chain) = tip.header.height + 1
           /\ chain[Len(chain)].block.header.prev_hash = ZERO_HASH
           /\ \A i \in 1 .. Len(chain) : \A j \in 1 .. Len(chain) :
                 chain[i].hash = chain[j].hash => i = j

\* C5: the header hash of every stored block, the genesis block included,
\* is below the target.
C5_StoredBlocksHavePoW ==
    \A h \in DOMAIN blocks_by_hash :
        header_hash(blocks_by_hash[h].header) < TARGET

\* C6: on a chain that holds the genesis block, the merkle_root field of
\* every stored block is the Merkle root of the txids of its transactions,
\* in block order.
C6_MerkleIntegrity ==
    HasGenesis => \A h \in DOMAIN blocks_by_hash :
        blocks_by_hash[h].header.merkle_root =
            merkle_root(txids_of(blocks_by_hash[h].txs))

\* the two conditions of C7 for one input of a stored transaction
InputBound(tx, inp) ==
    LET out == find_output_in_chain(blocks_by_hash, inp.txid_ref, inp.index)
    IN /\ out # None
       /\ sha256_hex(<<inp.pubkey>>) = out.pubkey_hash
       /\ verify(inp.pubkey, message_hash(tx), inp.signature)

\* C7: every input of every stored transaction that has inputs carries a
\* public key whose hash is the pubkey_hash of the output it consumes, and
\* a signature that verifies under that key against the signing hash of
\* the transaction.
C7_InputsBoundAndSigned ==
    \A tx \in ChainTxs : \A i \in 1 .. Len(tx.inputs) :
        InputBound(tx, tx.inputs[i])

\* a stored block above height 0 carries a transaction with an input
C7_Witness ==
    \E h \in DOMAIN blocks_by_hash :
        /\ blocks_by_hash[h].header.height > 0
        /\ \E i \in 1 .. Len(blocks_by_hash[h].txs) :
              blocks_by_hash[h].txs[i].inputs # <<>>

\* C8: a successful mine_block on a chain with tip T returns a block with
\* prev_hash = hash(T) and height T.height + 1, on an empty chain one with
\* height 0 and prev_hash all zeros; the block is stored under its own
\* header hash and that hash is the new tip.
C8_MinedBlockExtendsTip ==
    [][(result.op = "idle" /\ result'.op = "mine" /\ result'.ok) =>
          LET T == tip_of(TheLedger)
              b == result'.ret
              h == header_hash(b.header)
          IN /\ T # None =>
                   /\ b.header.prev_hash = header_hash(T.header)
                   /\ b.header.height = T.header.height + 1
             /\ T = None =>
                   /\ b.header.prev_hash = ZERO_HASH
                   /\ b.header.height = 0
             /\ h \in DOMAIN blocks_by_hash'
             /\ blocks_by_hash'[h] = b
             /\ height_tip_hash' = h]_vars

\* mining on top of an existing tip has just returned a block
C8_Witness ==
    /\ result.op = "mine"
    /\ result.ok
    /\ result.ret.header.height >= 1
    /\ result.ret.header.prev_hash \in DOMAIN blocks_by_hash

\* C9: a mine() that fails, on an empty mempool or on one with no valid
\* entry, leaves the chain map, the tip, the UTXO set, every mempool and
\* last_mined_block as they were, broadcasts nothing and does not call the
\* master.
C9_FailedMineChangesNothing ==
    [][(result.op = "idle" /\ result'.op = "mine" /\ ~result'.ok) =>
          UNCHANGED <<blocks_by_hash, height_tip_hash, utxo, mempool,
                      last_mined_block, broadcasts, master_reports>>]_vars

\* mining has just failed at a node whose mempool holds only entries that
\* are no longer valid
C9_Witness ==
    /\ result.op = "mine"
    /\ ~result.ok
    /\ mempool[result.node] # <<>>
    /\ blocks_by_hash # EMPTY_MAP

\* C10: mining at a node with an empty mempool fails with the reason of
\* mine_block's own failure, "no valid transactions".
C10_EmptyMempoolReason ==
    (result.op = "mine" /\ ~result.ok /\ mempool[result.node] = <<>>) =>
        result.reason = "mining failed: no valid transactions to mine"

\* entries of a mempool that carry the txid
Occurrences(pool, txid) ==
    Cardinality({i \in 1 .. Len(pool) : pool[i].txid = txid})

\* the reasons validate_transaction gives for a rejection
RejectReasons ==
    {"missing UTXO", "multiple asset_ids in inputs", "pubkey hash mismatch",
     "output asset_id mismatch", "portion mismatch",
     "signature verification failed"}

\* C11: receive_transaction of a transaction that validate_transaction
\* rejects leaves every mempool and the ledger unchanged, and makes no
\* call on a peer.
C11_RejectedTxChangesNothing ==
    [][(/\ result.op = "idle"
        /\ result'.op = "receive_transaction"
        /\ result'.reason \in RejectReasons) =>
           /\ UNCHANGED <<mempool, blocks_by_hash, height_tip_hash, utxo>>
           /\ flood_calls' = <<[node |-> result'.node, did |-> "rejected"]>>]_vars

\* a node with a peer has just rejected a transaction for its portions
C11_Witness ==
    /\ result.op = "receive_transaction"
    /\ ~result.ok
    /\ result.reason = "portion mismatch"
    /\ peers[result.node] # <<>>
    /\ flood_calls = <<[node |-> result.node, did |-> "rejected"]>>

\* the transaction a successful receive_transaction call has just stored
AdmittedTx == mempool[result.node][Len(mempool[result.node])]

\* C12: in the full mesh, when receive_transaction returns for a valid
\* transaction that no mempool held, every node's mempool holds it exactly
\* once.
C12_FloodReachesEveryNode ==
    [][(/\ result.op = "idle"
        /\ result'.op = "receive_transaction"
        /\ result'.ok
        /\ \A m \in Nodes : ~in_mempool(mempool[m], AdmittedTx'.txid)) =>
           \A m \in Nodes : Occurrences(mempool'[m], AdmittedTx'.txid) = 1]_vars

\* a spending transaction new to every node has just been flooded
C12_Witness ==
    /\ result.op = "receive_transaction"
    /\ result.ok
    /\ result.reason = "ok"
    /\ Len(flood_calls) > 1
    /\ \A m \in Nodes : mempool[m] # <<>>

\* nodes that admitted the transaction during the last flood
Admitters ==
    {flood_calls[i].node :
        i \in {j \in 1 .. Len(flood_calls) : flood_calls[j].did = "admitted"}}

RECURSIVE PeerCalls(_)
PeerCalls(S) ==
    IF S = {} THEN 0
    ELSE LET n == CHOOSE x \in S : TRUE
         IN Len(peers[n]) + PeerCalls(S \ {n})

\* C13: for every peer graph the flood ends on its own before the first
\* call returns: it makes the first call and one call per peer entry of
\* each node that admitted the transaction, no node admits it twice, and
\* no mempool ever holds a txid twice.
C13_FloodTerminates ==
    /\ Len(flood_calls) < MaxFlood
    /\ flood_calls # <<>> => Len(flood_calls) = 1 + PeerCalls(Admitters)
    /\ \A n \in Nodes :
          Cardinality({i \in 1 .. Len(flood_calls) :
                          /\ flood_calls[i].node = n
                          /\ flood_calls[i].did = "admitted"}) <= 1
    /\ \A n \in Nodes : \A i \in 1 .. Len(mempool[n]) :
          Occurrences(mempool[n], mempool[n][i].txid) = 1

\* a flood has run through a node that lists itself as a peer and through
\* a pair of nodes that list each other
C13_Witness ==
    /\ result.op = "receive_transaction"
    /\ result.ok
    /\ \E n \in Nodes : \E i \in 1 .. Len(peers[n]) : peers[n][i] = n
    /\ \E n \in Nodes : \E m \in Nodes \ {n} :
          /\ \E i \in 1 .. Len(peers[n]) : peers[n][i] = m
          /\ \E i \in 1 .. Len(peers[m]) : peers[m][i] = n
    /\ Cardinality(Admitters) = Cardinality(Nodes)
    /\ \E i \in 1 .. Len(flood_calls) : flood_calls[i].did = "duplicate"

C15_WrongSignerRejected ==
    \A base \in ValidTxs(utxo) : \A v \in Wallets :
        pubkey_hex(v) # base.inputs[1].pubkey =>
            validate_transaction(create_random_invalid_tx(base, "signature", v),
                                 utxo)
                = [ok |-> FALSE, reason |-> "signature verification failed"]

\* a node has just rejected a transaction re-signed by a wallet that does
\* not own the output
C15_Witness ==
    /\ result.op = "receive_transaction"
    /\ ~result.ok
    /\ result.reason = "signature verification failed"
    /\ \E base \in ValidTxs(utxo) : \E v \in Wallets :
          pubkey_hex(v) # base.inputs[1].pubkey

\* C16: receive_block of a block whose prev_hash is not the hash of the
\* current tip leaves the chain map, the tip, the UTXO set and the mempools
\* unchanged, whether or not the ledger has a tip.
C16_ForeignBlockChangesNothing ==
    [][(result.op = "idle" /\ result'.op = "receive_block") =>
          \A block \in BlockChoices(result'.node) :
              (/\ ReceiveBlock(result'.node, block)
               /\ block.header.prev_hash # height_tip_hash) =>
                  UNCHANGED <<blocks_by_hash, height_tip_hash, utxo, mempool>>]_vars

\* C17: receive_block of a block whose header hash is not below the target,
\* or one of whose transactions validate_transaction rejects, applies none
\* of its transactions and leaves the chain map, the tip, the UTXO set and
\* the mempools unchanged.
C17_RejectedBlockChangesNothing ==
    [][(result.op = "idle" /\ result'.op = "receive_block") =>
          \A block \in BlockChoices(result'.node) :
              (/\ ReceiveBlock(result'.node, block)
               /\ \/ header_hash(block.header) >= TARGET
                  \/ \E i \in 1 .. Len(block.txs) :
                        ~validate_transaction(block.txs[i], utxo).ok) =>
                  UNCHANGED <<blocks_by_hash, height_tip_hash, utxo, mempool>>]_vars

\* a block with proof of work that extends the tip has just been rejected
\* for its second transaction, the first one being valid
C17_Witness ==
    /\ result.op = "receive_block"
    /\ result.reason = "invalid tx"
    /\ Len(mempool[result.node]) >= 2
    /\ validate_transaction(mempool[result.node][1], utxo).ok
    /\ ~validate_transaction(mempool[result.node][2], utxo).ok

\* C18: add_genesis_block succeeds only on an empty chain; called on a
\* ledger that already holds a block it fails and leaves the chain map, the
\* tip and the UTXO set unchanged.
C18_GenesisOnlyOnEmptyChain ==
    [][(/\ result.op = "idle"
        /\ result'.op = "add_genesis_block"
        /\ DOMAIN blocks_by_hash # {}) =>
           /\ ~result'.ok
           /\ UNCHANGED <<blocks_by_hash, height_tip_hash, utxo>>]_vars

\* the hashes build_chain_from_tip walks
TipPath ==
    {build_chain_from_tip(TheLedger)[i].hash :
        i \in 1 .. Len(build_chain_from_tip(TheLedger))}

\* C19: a stored block is never removed from the chain map or replaced by a
\* different block, and a block on the path walked from the tip by prev_hash
\* stays on that path in every later state.
C19_BlocksNeverRetracted ==
    [][/\ \A h \in DOMAIN blocks_by_hash :
             /\ h \in DOMAIN blocks_by_hash'
             /\ blocks_by_hash'[h] = blocks_by_hash[h]
       /\ TipPath \subseteq TipPath']_vars

MasterOps ==
    {"on_block_mined", "verify_transaction", "snapshot_daChain", "trace_asset"}

\* C20: on_block_mined, verify_transaction, snapshot_daChain and trace_asset
\* leave the chain map, the tip, the UTXO set, every mempool and every
\* last_mined_block unchanged, whatever they report.
C20_MasterChangesNothing ==
    [][(result.op = "idle" /\ result'.op \in MasterOps) =>
          UNCHANGED <<blocks_by_hash, height_tip_hash, utxo, mempool,
                      last_mined_block>>]_vars

\* verify_transaction has just passed the leftmost transaction of the tip
C20_Witness ==
    /\ result.op = "verify_transaction"
    /\ result.reason = "yes!"
    /\ result.ret \in {t.txid : t \in ChainTxs}

\* the places (block hash, position) of the transactions that have an
\* output of the asset
AssetPlaces(asset_id) ==
    {p \in {<<h, i>> : h \in DOMAIN blocks_by_hash, i \in 1 .. MAX_TX_PER_BLOCK} :
        /\ p[2] <= Len(blocks_by_hash[p[1]].txs)
        /\ \E j \in 1 .. Len(blocks_by_hash[p[1]].txs[p[2]].outputs) :
              blocks_by_hash[p[1]].txs[p[2]].outputs[j].asset_id = asset_id}

\* history holds one entry for each place, and nothing else
OneEntryPerPlace(history, places) ==
    /\ Len(history) = Cardinality(places)
    /\ \A p \in places :
          Cardinality({k \in 1 .. Len(history) :
              history[k] = [height |-> blocks_by_hash[p[1]].header.height,
                            hash |-> p[1],
                            tx |-> blocks_by_hash[p[1]].txs[p[2]]]}) = 1

\* C21: trace_asset returns exactly one (height, block hash, tx) for each
\* transaction of each stored block that has an output of the asset, however
\* many of its outputs match, and the entries come by falling block height.
C21_TraceOnePerTx ==
    \A a \in AskedAssets :
        /\ OneEntryPerPlace(trace_asset(blocks_by_hash, a), AssetPlaces(a))
        /\ \A k \in 2 .. Len(trace_asset(blocks_by_hash, a)) :
              trace_asset(blocks_by_hash, a)[k - 1].height >=
                  trace_asset(blocks_by_hash, a)[k].height

\* the trace command has just listed two entries, one of them a stored
\* transaction with two outputs of the asset
C21_Witness ==
    /\ result.op = "trace_asset"
    /\ Len(result.ret) = 2
    /\ \E t \in ChainTxs : /\ Len(t.outputs) = 2
                           /\ t.outputs[1].asset_id = 0
                           /\ t.outputs[2].asset_id = 0

\* C22: build_chain_from_tip ends for every chain map and tip (it takes no
\* more steps than there are blocks) and returns a tip-first list without a
\* repeated hash in which each later entry is the stored block its
\* predecessor's prev_hash names.
C22_ChainWalkEnds ==
    result.op = "build_chain_from_tip" =>
        /\ Len(result.ret.chain) <= Cardinality(DOMAIN blocks_by_hash)
        /\ \A i \in 1 .. Len(result.ret.chain) :
              /\ result.ret.chain[i].hash \in DOMAIN blocks_by_hash
              /\ result.ret.chain[i].block = blocks_by_hash[result.ret.chain[i].hash]
              /\ i = 1 => result.ret.chain[i].hash = height_tip_hash
              /\ i > 1 => result.ret.chain[i].hash =
                             result.ret.chain[i - 1].block.header.prev_hash
              /\ \A j \in 1 .. Len(result.ret.chain) :
                    result.ret.chain[i].hash = result.ret.chain[j].hash => i = j

\* the walk has just stopped on a cycle through every stored block
C22_Witness ==
    /\ result.op = "build_chain_from_tip"
    /\ Len(result.ret.chain) = Cardinality(StoreHashes)
    /\ result.ret.chain[Len(result.ret.chain)].block.header.prev_hash = height_tip_hash

\* C23: validate, admit and forward of one receive_transaction are atomic
\* with respect to the ledger: a transaction enters a mempool only if it
\* validates against the ledger at the instant it is inserted.
C23_AdmittedWhileValid ==
    [][\A n \in Nodes : \A i \in 1 .. Len(mempool'[n]) :
          ~in_mempool(mempool[n], mempool'[n][i].txid) =>
              validate_transaction(mempool'[n][i], utxo).ok]_vars

\* C24: a mine_block call that overlaps another commit stores its block
\* only if the block's prev_hash is still the hash of the tip, so that no
\* two stored blocks have the same prev_hash and every transaction it
\* applies is valid when it is applied.
C24_CommitRechecksTip ==
    [][\A m \in Miners :
          (mining[m] # None /\ mining'[m] = None) =>
              /\ mining[m].block.header.prev_hash =
                     next_position(TheLedger).prev_hash
              /\ \A i \in 1 .. Len(mining[m].block.txs) :
                    validate_transaction(mining[m].block.txs[i], utxo).ok
              /\ \A h1 \in DOMAIN blocks_by_hash' :
                    \A h2 \in DOMAIN blocks_by_hash' :
                       blocks_by_hash'[h1].header.prev_hash =
                           blocks_by_hash'[h2].header.prev_hash => h1 = h2]_vars

\* C25: after stop() on a started UserProcess the generator makes at most
\* one more receive_transaction call and its run loop ends, whenever stop()
\* falls between the start of the thread and its iterations.
C25_StopEndsGenerator ==
    /\ [](user_proc.sent <= 1)
    /\ (user_proc.stopped ~> user_proc.pc = "done")

\* ---------------------------------------------------- Merkle root of one txid
\* C26: for every txid t, merkle_root of the one-element list [t] equals
\* SHA-256 of the bytes of t concatenated with themselves.
C26_SingleLeafIsHashed ==
    \A h \in DOMAIN blocks_by_hash :
        \A i \in 1 .. Len(blocks_by_hash[h].txs) :
            LET t == blocks_by_hash[h].txs[i].txid
            IN merkle_root(<<t>>) = sha256_bytes(<<t, t>>)

\* ------------------------------------------------ signing form and txid
\* the transactions of the chain and the pools and those the generators
\* can build now
SeenTxs == KnownTxs \cup GeneratedTxs

\* same outpoints, public keys and outputs, another signature somewhere
SameButSignatures(t1, t2) ==
    /\ Len(t1.inputs) = Len(t2.inputs)
    /\ t1.outputs = t2.outputs
    /\ \A i \in 1 .. Len(t1.inputs) :
          /\ t1.inputs[i].txid_ref = t2.inputs[i].txid_ref
          /\ t1.inputs[i].index = t2.inputs[i].index
          /\ t1.inputs[i].pubkey = t2.inputs[i].pubkey
    /\ \E i \in 1 .. Len(t1.inputs) :
          t1.inputs[i].signature # t2.inputs[i].signature

\* C27: two transactions with identical outpoints, public keys and outputs
\* but different input signatures have equal message_hash and different
\* txids, and a transaction rebuilt from its serialised inputs and outputs,
\* as _block_from_dict does after _block_to_dict, has the txid of the
\* original.
C27_SigningFormAndTxid ==
    /\ \A pair \in SeenTxs \X SeenTxs :
          SameButSignatures(pair[1], pair[2])
          => /\ message_hash(pair[1]) = message_hash(pair[2])
             /\ pair[1].txid # pair[2].txid
    /\ \A t \in SeenTxs : tx_from_dict(tx_to_dict(t)).txid = t.txid
    /\ \A h \in DOMAIN blocks_by_hash :
          LET rebuilt == block_from_dict(block_to_dict(blocks_by_hash[h], h))
          IN /\ Len(rebuilt.txs) = Len(blocks_by_hash[h].txs)
             /\ \A i \in 1 .. Len(rebuilt.txs) :
                   rebuilt.txs[i].txid = blocks_by_hash[h].txs[i].txid

\* a mined block holds a signed transaction, and two transactions that
\* differ in the signature only can be built
C27_Witness ==
    /\ \E h \in DOMAIN blocks_by_hash :
          \E i \in 1 .. Len(blocks_by_hash[h].txs) :
             blocks_by_hash[h].txs[i].inputs # <<>>
    /\ \E t1 \in SeenTxs : \E t2 \in SeenTxs : SameButSignatures(t1, t2)

\* ------------------------------------------------------ the genesis ledger
\* C28: initiate daChain N on a fresh ledger yields a chain of exactly one
\* block, of height 0 and prev_hash zeros, holding N transactions without
\* inputs, and N unspent outputs, the i-th with asset i, portion 100 and the
\* pubkey hash of the i-th created wallet, the owners pairwise distinct.
C28_GenesisLedger ==
    result.op = "initiate_dachain"
    => LET n == result.ret.assets
       IN /\ DOMAIN blocks_by_hash = {height_tip_hash}
          /\ LET block == blocks_by_hash[height_tip_hash]
             IN /\ block.header.height = 0
                /\ block.header.prev_hash = ZERO_HASH
                /\ Len(block.txs) = n
                /\ \A i \in 1 .. n :
                      /\ block.txs[i].inputs = <<>>
                      /\ <<block.txs[i].txid, 0>> \in DOMAIN utxo
                      /\ utxo[<<block.txs[i].txid, 0>>]
                            = TxOutput(i - 1,
                                       pubkey_hash(created_wallets(n)[i]), 100)
          /\ Cardinality(DOMAIN utxo) = n
          /\ \A k1 \in DOMAIN utxo : \A k2 \in DOMAIN utxo :
                k1 # k2 => utxo[k1].pubkey_hash # utxo[k2].pubkey_hash

\* initiate daChain 2 has returned
C28_Witness ==
    /\ result.op = "initiate_dachain"
    /\ result.ret.assets = 2
    /\ Cardinality(DOMAIN utxo) = 2

\* ------------------------------------------------- the selection of a block
ValidNow(tx) ==
    validate_transaction(tx, utxo).ok

\* C29: a block returned by mine_block holds exactly the first min(8, v)
\* transactions of the pending list, in list order, that validate against
\* the ledger as it is when the call starts, v >= 1 being their number; no
\* mined block holds more than MAX_TX_PER_BLOCK or fewer than one.
C29_MinedBlockSelection ==
    [][(result'.op = "mine" /\ result'.ret # None)
       => LET valid == SelectSeq(mempool[result'.node], ValidNow)
              v == Len(valid)
          IN /\ v >= 1
             /\ result'.ret.txs
                   = SubSeq(valid, 1, IF v < 8 THEN v ELSE 8)
             /\ Len(result'.ret.txs) >= 1
             /\ Len(result'.ret.txs) <= MAX_TX_PER_BLOCK]_vars

\* a block of eight transactions has been mined from a list that held more
\* valid ones and, before the ninth, one that did not validate
C29_Witness ==
    /\ result.op = "mine"
    /\ result.ret # None
    /\ Len(result.ret.txs) = 8
    /\ \E i \in 1 .. Len(mempool[result.node]) :
          \E j \in 1 .. Len(mempool[result.node]) :
             /\ i < j
             /\ mempool[result.node][i].inputs[1].txid_ref
                   # result.ret.txs[1].inputs[1].txid_ref
             /\ mempool[result.node][j].inputs[1].txid_ref
                   = result.ret.txs[1].inputs[1].txid_ref

\* ------------------------------------------- the substeps of the master
\* the output input i of tx names, looked up in the chain
SpentOutput(tx, i) ==
    find_output_in_chain(blocks_by_hash, tx.inputs[i].txid_ref,
                         tx.inputs[i].index)

\* outpoint existence and asset-id consistency of input i
OutpointPasses(tx, i) ==
    /\ SpentOutput(tx, i) # None
    /\ SpentOutput(tx, 1) # None
    /\ SpentOutput(tx, i).asset_id = SpentOutput(tx, 1).asset_id

PubkeyHashPasses(tx, i) ==
    sha256_hex(<<tx.inputs[i].pubkey>>) = SpentOutput(tx, i).pubkey_hash

InputPasses(tx, i) ==
    /\ OutpointPasses(tx, i)
    /\ PubkeyHashPasses(tx, i)
    /\ verify(tx.inputs[i].pubkey, message_hash(tx), tx.inputs[i].signature)

RECURSIVE TotalIn(_, _)
TotalIn(tx, i) ==
    IF i > Len(tx.inputs) THEN 0
    ELSE SpentOutput(tx, i).portion + TotalIn(tx, i + 1)

EverySubstepPasses(tx) ==
    /\ \A i \in 1 .. Len(tx.inputs) : InputPasses(tx, i)
    /\ tx.inputs # <<>>
    /\ \A j \in 1 .. Len(tx.outputs) :
          tx.outputs[j].asset_id = SpentOutput(tx, 1).asset_id
    /\ TotalIn(tx, 1) = sum_portions(tx.outputs, 1)

\* verify_transaction has narrated a transaction
HasVerified ==
    /\ result.op = "verify_transaction"
    /\ result.reason \notin {"no such node", "no mined block / no txs"}

VerifiedTx ==
    CHOOSE t \in ChainTxs : t.txid = result.ret

\* C30: MasterProcess.verify_transaction stops at the first substep that
\* fails (outpoint existence, asset-id consistency, pubkey-hash binding,
\* signature, portion conservation) and reports overall success only when
\* every substep of every input and output passed.
C30_VerifyStopsAtFirstFailure ==
    HasVerified
    => /\ result.reason = "yes!" => EverySubstepPasses(VerifiedTx)
       /\ \A i \in 1 .. Len(VerifiedTx.inputs) :
             (/\ \A j \in 1 .. i - 1 : InputPasses(VerifiedTx, j)
              /\ OutpointPasses(VerifiedTx, i)
              /\ ~PubkeyHashPasses(VerifiedTx, i))
             => result.reason = "pubKHash NO!"

\* ------------------------------------------------ the UTXO set as projection
\* outpoints the transactions of the stored blocks have created
CreatedOutpoints ==
    UNION {{<<t.txid, j - 1>> : j \in 1 .. Len(t.outputs)} : t \in ChainTxs}

\* outpoints an input of a transaction of a stored block names
SpentOutpoints ==
    UNION {{<<t.inputs[i].txid_ref, t.inputs[i].index>> :
               i \in 1 .. Len(t.inputs)} : t \in ChainTxs}

\* C31: in every reachable state the keys of the UTXO set are exactly the
\* outpoints created by transactions of applied blocks that no input of a
\* transaction of an applied block names, each mapped to the output created
\* there.
C31_UtxoIsProjection ==
    /\ DOMAIN utxo = CreatedOutpoints \ SpentOutpoints
    /\ \A t \in ChainTxs : \A j \in 1 .. Len(t.outputs) :
          <<t.txid, j - 1>> \in DOMAIN utxo
          => utxo[<<t.txid, j - 1>>] = t.outputs[j]

\* ------------------------------------------------ the order of the rules
\* the portions of the outputs the inputs of tx name, all unspent
RECURSIVE UnspentIn(_, _)
UnspentIn(tx, i) ==
    IF i > Len(tx.inputs) THEN 0
    ELSE utxo[<<tx.inputs[i].txid_ref, tx.inputs[i].index>>].portion
         + UnspentIn(tx, i + 1)

TotalOf(tx) == UnspentIn(tx, 1)

\* the reason of the earliest rule tx breaks when each rule is decided over
\* the whole transaction, in the numbered order
EarliestBrokenRule(tx) ==
    LET ins == 1 .. Len(tx.inputs)
        out(i) == get_output(utxo, tx.inputs[i].txid_ref, tx.inputs[i].index)
    IN IF tx.inputs = <<>> THEN "coinbase/genesis tx"
       ELSE IF \E i \in ins : out(i) = None THEN "missing UTXO"
       ELSE IF \E i \in ins : out(i).asset_id # out(1).asset_id
       THEN "multiple asset_ids in inputs"
       ELSE IF \E i \in ins :
                  sha256_hex(<<tx.inputs[i].pubkey>>) # out(i).pubkey_hash
       THEN "pubkey hash mismatch"
       ELSE IF \E j \in 1 .. Len(tx.outputs) :
                  tx.outputs[j].asset_id # out(1).asset_id
       THEN "output asset_id mismatch"
       ELSE IF TotalOf(tx) # sum_portions(tx.outputs, 1)
       THEN "portion mismatch"
       ELSE IF \E i \in ins : ~verify(tx.inputs[i].pubkey, message_hash(tx),
                                      tx.inputs[i].signature)
       THEN "signature verification failed"
       ELSE "ok"

\* C32: validate_transaction decides the existence of every input's
\* outpoint first, then asset-id consistency of the inputs, then pubkey-hash
\* binding, then output asset ids, then portion equality, then signatures;
\* the reason returned is that of the earliest rule in this order that the
\* transaction breaks.
C32_RulesInNumberedOrder ==
    (result.op = "validate_transaction" /\ DOMAIN result.ret = {"tx"})
    => result.reason = EarliestBrokenRule(result.ret.tx)

\* ------------------------------------------------------ the share loop
\* C33: for every portion of 1..100 and every k of 1..3
\* create_random_valid_tx completes and yields k outputs whose portions are
\* positive integers that sum to the portion of the outpoint spent.
C33_SharesPartitionPortion ==
    result.op = "create_random_valid_tx"
    => /\ result.ok
       /\ Len(result.ret.tx.outputs) = result.ret.k
       /\ \A j \in 1 .. result.ret.k : result.ret.tx.outputs[j].portion >= 1
       /\ sum_portions(result.ret.tx.outputs, 1) = result.ret.portion

\* ------------------------------------------------ the invalid generator
\* C34: every transaction create_random_invalid_tx produces, whichever of
\* the four mutations and whichever wallet is drawn, is rejected by
\* validate_transaction on the ledger state it was built from.
C34_InvalidTxsRejected ==
    \A tx \in InvalidTxs(utxo) : ~validate_transaction(tx, utxo).ok

InputPlaces ==
    UNION {UNION {{<<h, i, j>> : j \in 1 .. Len(blocks_by_hash[h].txs[i].inputs)} :
                  i \in 1 .. Len(blocks_by_hash[h].txs)} :
           h \in DOMAIN blocks_by_hash}

OutpointAt(p) ==
    <<blocks_by_hash[p[1]].txs[p[2]].inputs[p[3]].txid_ref,
      blocks_by_hash[p[1]].txs[p[2]].inputs[p[3]].index>>

\* C36: no outpoint is consumed more than once over the applied chain: no
\* two inputs, in different blocks, in two transactions of one block or in
\* one transaction, name the same (txid, index).
C36_NoOutpointSpentTwice ==
    \A p \in InputPlaces : \A q \in InputPlaces :
        p # q => OutpointAt(p) # OutpointAt(q)

\* ------------------------------------------------ mining without new input
\* no transaction of the mempool of node n validates against the ledger
NoValidPending(n) ==
    \A i \in 1 .. Len(mempool[n]) : ~validate_transaction(mempool[n][i], utxo).ok

LimitWords == {"ALL", "-1", "0", "1", "2", "k"}

\* int(limit_str): the words that parse and their values, ValueError otherwise
int_of(word) ==
    CASE word = "-1" -> [ok |-> TRUE, value |-> -1]
      [] word = "0" -> [ok |-> TRUE, value |-> 0]
      [] word = "1" -> [ok |-> TRUE, value |-> 1]
      [] word = "2" -> [ok |-> TRUE, value |-> 2]
      [] OTHER -> [ok |-> FALSE, value |-> 0]

\* DaChainCLI.trace_asset with the master process attached
cli_trace_asset(asset_id, limit_str, W) ==
    IF limit_str = "ALL" THEN master_trace_asset(asset_id, None, W)
    ELSE IF int_of(limit_str).ok
         THEN master_trace_asset(asset_id, [k |-> int_of(limit_str).value], W)
    ELSE Narrated(W, "k must be an integer or ALL", <<>>)

\* the trace branch of DaChainCLI.run: the limit is the third word, if any
TraceCommand(asset_id, rest) ==
    LET limit_str == IF Len(rest) = 1 THEN rest[1] ELSE "ALL"
        r == cli_trace_asset(asset_id, limit_str, TheWorld)
    IN Observed("trace", 0, TRUE, r.outcome,
                [asset_id |-> asset_id, limit_str |-> limit_str,
                 printed |-> r.ret], r.world)

NextTrace ==
    \/ Next
    \/ result = IDLE
       /\ \E a \in AskedAssets :
             \E rest \in {<<>>} \cup {<<w>> : w \in LimitWords} :
                TraceCommand(a, rest)

TraceSpec == Init /\ [][NextTrace]_vars

\* C38: for every integer limit k that the trace command accepts, the
\* entries reported are the first k entries of the newest-first history of
\* the asset (the whole history when it has fewer than k), and never more
\* than k entries.
C38_TraceReportsFirstK ==
    (result.op = "trace" /\ int_of(result.ret.limit_str).ok) =>
        LET k == int_of(result.ret.limit_str).value
            history == trace_asset(blocks_by_hash, result.ret.asset_id)
        IN /\ Len(result.ret.printed) <= k
           /\ result.ret.printed =
                  SubSeq(history, 1, IF Len(history) < k THEN Len(history)
                                     ELSE k)

\* ------------------------------------------- items that are not well formed
\* transactions whose input carries a public key or a signature that is not
\* hex, over an unspent output and over an outpoint that never existed
MalformedTxs(utxos) ==
    LET w == CHOOSE r \in Recipients : TRUE
        ops == DOMAIN utxos \cup {<<ZERO_HASH, 0>>}
        outs(o) == <<TxOutput(IF o \in DOMAIN utxos THEN utxos[o].asset_id
                              ELSE 0,
                              pubkey_hash(w),
                              IF o \in DOMAIN utxos THEN utxos[o].portion
                              ELSE 100)>>
        owner(o) == IF o \in DOMAIN utxos
                    THEN owner_wallet(utxos[o].pubkey_hash) ELSE w
    IN {signed_tx(<<o>>, NOT_HEX, owner(o), outs(o)) : o \in ops}
       \cup
       {Transaction(<<TxInput(o[1], o[2], pubkey_hex(owner(o)), BAD_SIG)>>,
                    outs(o)) : o \in ops}

\* the block a remote miner makes of one such transaction
MalformedBlocks ==
    LET pos == next_position(TheLedger)
    IN {make_block(pos.height, pos.prev_hash, merkle_root(txids_of(<<tx>>)),
                   TRUE, <<tx>>) : tx \in MalformedTxs(utxo)}

NextMalformed ==
    \/ Next
    \/ result = IDLE
       /\ \E tx \in MalformedTxs(utxo) : \E n \in Nodes :
             ReceiveTransaction(n, tx)
    \/ result = IDLE
       /\ \E n \in Nodes : \E block \in MalformedBlocks :
             ReceiveBlock(n, block)

MalformedSpec == Init /\ [][NextMalformed]_vars

\* C39: validation errors are contained: a receive_transaction or
\* receive_block call that does not take its item, also one whose input
\* public key or signature is not hex, returns normally and leaves the
\* ledger, the mempools and the reports unchanged; it never raises.
C39_ValidationErrorsContained ==
    [][(result'.op \in {"receive_transaction", "receive_block"}
         /\ ~result'.ok)
       => /\ result'.reason # VALUE_ERROR
          /\ UNCHANGED <<blocks_by_hash, height_tip_hash, utxo, mempool,
                         last_mined_block, broadcasts, master_reports>>]_vars

====
